---- MODULE Spec2Model ----
(***************************************************************************)
(* Streaming protocol-translation engine of gemini-cli-openai:             *)
(*   - GeminiApiClient.streamContent / performStreamRequest / getCompletion*)
(*   - GeminiApiClient.parseSSEStream                                      *)
(*   - GenerationConfigValidator.createValidatedConfig                     *)
(* Strings are sequences of tokens (one-character strings, or one token    *)
(* standing for a word or a delimiter), so that concatenation, splitting   *)
(* and prefix tests are computed as the code computes them.                *)
(***************************************************************************)
EXTENDS Integers, Sequences, FiniteSets, TLC

VARIABLES
    mode,               \* which component this behaviour exercises
    pc,                 \* position inside streamContent / performStreamRequest
    cfg,                \* inputs of one streamContent call (model id, env flags, options)
    streamRequest,      \* the request object handed to performStreamRequest
    isRetry,            \* performStreamRequest parameter
    needsThinkingClose, \* performStreamRequest parameter
    realThinkingAsContent, \* performStreamRequest parameter
    hasStartedThinking, \* local of performStreamRequest
    hasClosedThinking,  \* local of performStreamRequest
    chunks,             \* every StreamChunk yielded so far, in order
    requests,           \* every streamGenerateContent request sent so far
    calls,              \* calls made on the AuthManager, in order
    consumed,           \* backend events handled so far: parts classified, frame ends
    error,              \* message of the error that ended the stream, or Nil
    content,            \* getCompletion local
    usage,              \* getCompletion local
    tool_calls,         \* getCompletion local
    result,             \* value returned by getCompletion, None until it returns
    caught,             \* getCompletion's catch block: what it saw and did, None before
    sse,                \* parseSSEStream: input text, read position, locals, frames yielded
    gc,                 \* createValidatedConfig: inputs and produced config
    route,              \* POST /chat/completions: request, position, response, calls made
    conv,               \* messageToGeminiFormat: the message and the conversion's outcome
    project,            \* discoverProjectId: the client's cached id and the calls in progress
    pdf,                \* validatePdfBase64: the argument and the value returned
    reasoning           \* generateReasoningOutput's chunking loop: the text and its pieces

vars == <<mode, pc, cfg, streamRequest, isRetry, needsThinkingClose, realThinkingAsContent,
          hasStartedThinking, hasClosedThinking, chunks, requests, calls, consumed,
          error, content, usage, tool_calls, result, caught, sse, gc, route, conv,
          project, pdf, reasoning>>

streamVars == <<pc, cfg, streamRequest, isRetry, needsThinkingClose, realThinkingAsContent,
                hasStartedThinking, hasClosedThinking, chunks, requests, calls, consumed,
                error, content, usage, tool_calls, result, caught>>

Nil == "undefined"

\* An optional value: None, or Some(v)
None == <<>>
Some(v) == <<v>>

Least(S) == CHOOSE i \in S : \A j \in S : i <= j
Greatest(S) == CHOOSE i \in S : \A j \in S : j <= i

----------------------------------------------------------------------------
(* Bounds of the model *)

MaxEvents == 2      \* backend events (parts, frame ends) handled in one response
MaxLines == 3       \* lines of the text fed to parseSSEStream
MaxBudget == 3      \* requested thinking budgets range over -MaxBudget..MaxBudget
MaxParts == 2       \* ContentParts in the list content of one message

----------------------------------------------------------------------------
(* Generic string helpers *)

RECURSIVE Concat(_)
Concat(ss) == IF ss = <<>> THEN <<>> ELSE Head(ss) \o Concat(Tail(ss))

\* String.prototype.substring(a, b) with 0-based a, exclusive b
Substring(s, a, b) == SubSeq(s, a + 1, IF b > Len(s) THEN Len(s) ELSE b)

\* String.prototype.lastIndexOf(c): 0-based index, -1 when absent
LastIndexOf(s, c) ==
    LET hits == {i \in 1..Len(s) : s[i] = c}
    IN IF hits = {} THEN -1 ELSE (CHOOSE i \in hits : \A j \in hits : j <= i) - 1

Whitespace == {" ", "\n", "\r", "\t"}

RECURSIVE TrimStart(_)
TrimStart(s) == IF s # <<>> /\ Head(s) \in Whitespace THEN TrimStart(Tail(s)) ELSE s

RECURSIVE TrimEnd(_)
TrimEnd(s) ==
    IF s # <<>> /\ s[Len(s)] \in Whitespace THEN TrimEnd(SubSeq(s, 1, Len(s) - 1)) ELSE s

\* String.prototype.trim()
Trim(s) == TrimEnd(TrimStart(s))

\* String.prototype.startsWith(p)
StartsWith(s, p) == Len(s) >= Len(p) /\ SubSeq(s, 1, Len(p)) = p

----------------------------------------------------------------------------
(* constants.ts and models.ts *)

THINKING_CONTENT_CHUNK_SIZE == 15
DEFAULT_THINKING_BUDGET == -1

\* geminiCliModels: every registered model is flagged thinking: true
RegisteredModels ==
    {"gemini-3-pro-preview", "gemini-3-flash-preview", "gemini-2.5-pro",
     "gemini-2.5-flash", "gemini-2.5-flash-lite"}

\* geminiCliModels[modelId]?.thinking || false
IsThinkingModel(modelId) == modelId \in RegisteredModels

AUTO_SWITCH_MODEL_MAP ==
    [m \in {"gemini-2.5-pro", "gemini-3-pro-preview"} |->
        IF m = "gemini-2.5-pro" THEN "gemini-2.5-flash" ELSE "gemini-3-flash-preview"]

RATE_LIMIT_STATUS_CODES == {429, 503}

----------------------------------------------------------------------------
(* helpers/generation-config-validator.ts *)

EffortLevels == {"none", "low", "medium", "high"}

\* modelId.includes("flash")
IsFlashModel(modelId) ==
    modelId \in {"gemini-3-flash-preview", "gemini-2.5-flash", "gemini-2.5-flash-lite"}

mapEffortToThinkingBudget(effort, modelId) ==
    CASE effort = "none" -> 0
      [] effort = "low" -> 1024
      [] effort = "medium" -> IF IsFlashModel(modelId) THEN 12288 ELSE 16384
      [] effort = "high" -> IF IsFlashModel(modelId) THEN 24576 ELSE 32768
      [] OTHER -> DEFAULT_THINKING_BUDGET

isValidEffortLevel(value) == value \in EffortLevels

\* Variant: a budget of 0 is not replaced
validateThinkingBudget_ZeroKept(modelId, thinkingBudget) ==
    IF IsThinkingModel(modelId) /\ thinkingBudget < -1
    THEN DEFAULT_THINKING_BUDGET ELSE thinkingBudget

\* Variant: a budget below -1 is raised by one instead of replaced
validateThinkingBudget_StepUp(modelId, thinkingBudget) ==
    IF IsThinkingModel(modelId)
    THEN IF thinkingBudget = 0 THEN DEFAULT_THINKING_BUDGET
         ELSE IF thinkingBudget < -1 THEN thinkingBudget + 1
         ELSE thinkingBudget
    ELSE thinkingBudget

validateThinkingBudget(modelId, thinkingBudget) ==
    IF IsThinkingModel(modelId)
    THEN IF thinkingBudget = 0 THEN DEFAULT_THINKING_BUDGET
         ELSE IF thinkingBudget < -1 THEN DEFAULT_THINKING_BUDGET
         ELSE thinkingBudget
    ELSE thinkingBudget

\* Variant: thoughts are shown whenever real thinking is enabled
IncludesThoughts_RealOnly(isRealThinkingEnabled, includeReasoning) == isRealThinkingEnabled

\* if (isRealThinkingEnabled && includeReasoning)
IncludesThoughts(isRealThinkingEnabled, includeReasoning) ==
    isRealThinkingEnabled /\ includeReasoning

\* if (reasoning_effort && this.isValidEffortLevel(reasoning_effort)) { ... }
MapReasoningEffort(reasoning_effort, modelId, includeReasoning0, thinkingBudget0) ==
    IF reasoning_effort # Nil /\ isValidEffortLevel(reasoning_effort)
    THEN [includeReasoning |-> reasoning_effort # "none",
          thinkingBudget |-> mapEffortToThinkingBudget(reasoning_effort, modelId)]
    ELSE [includeReasoning |-> includeReasoning0, thinkingBudget |-> thinkingBudget0]

\* The thinkingConfig of the generation config (None when the key is not set);
\* options.reasoning_effort is the first truthy of the three places it is read from.
createValidatedConfig(modelId, options, isRealThinkingEnabled, includeReasoning0) ==
    IF IsThinkingModel(modelId)
    THEN LET budget0 == IF options.thinking_budget = None
                        THEN DEFAULT_THINKING_BUDGET ELSE options.thinking_budget[1]
             mapped == MapReasoningEffort(options.reasoning_effort, modelId,
                                          includeReasoning0, budget0)
             thinkingBudget == mapped.thinkingBudget
             includeReasoning == mapped.includeReasoning
             validatedBudget == validateThinkingBudget(modelId, thinkingBudget)
         IN IF IncludesThoughts(isRealThinkingEnabled, includeReasoning)
            THEN [thinkingConfig |->
                    Some([thinkingBudget |-> validatedBudget, includeThoughts |-> TRUE])]
            ELSE [thinkingConfig |->
                    Some([thinkingBudget |->
                              validateThinkingBudget(modelId, DEFAULT_THINKING_BUDGET),
                          includeThoughts |-> FALSE])]
    ELSE [thinkingConfig |-> None]

----------------------------------------------------------------------------
(* helpers/auto-model-switching.ts (AutoModelSwitchingHelper) *)

isRateLimitStatus(status) == status \in RATE_LIMIT_STATUS_CODES

getFallbackModel(originalModel) ==
    IF originalModel \in DOMAIN AUTO_SWITCH_MODEL_MAP
    THEN Some(AUTO_SWITCH_MODEL_MAP[originalModel]) ELSE None

\* The notification text names the original and the fallback model.
createSwitchNotification(originalModel, fallbackModel) ==
    <<"[auto-switch] ", originalModel, " -> ", fallbackModel>>

----------------------------------------------------------------------------
(* StreamChunk values *)

OpenMarker == <<"<thinking>\n">>
CloseMarker == <<"\n</thinking>\n\n">>

Chunk(type, data) == [type |-> type, data |-> data]
OpenChunk == Chunk("thinking_content", OpenMarker)
CloseChunk == Chunk("thinking_content", CloseMarker)

----------------------------------------------------------------------------
(* GeminiApiClient.generateReasoningOutput *)

PreviewLimit == 100

REASONING_MESSAGES ==
    << <<"A", "n", "a", ":", " ", "{requestPreview}", "\n", "\n">>,
       <<"L", "e", "t", " ", "m", "e", ".", ".", ".", " ">>,
       <<"I", " ", "n", "e", "e", "d", ".", " ">>,
       <<"B", "a", "s", "e", "d", ",", " ", "o", "k", ".", " ">>,
       <<"L", "e", "t", "!", "\n", "\n">> >>

\* msg.replace("{requestPreview}", requestPreview): the first occurrence only
ReplacePreview(msg, requestPreview) ==
    LET hits == {i \in 1..Len(msg) : msg[i] = "{requestPreview}"}
    IN IF hits = {} THEN msg
       ELSE LET i == CHOOSE k \in hits : \A j \in hits : k <= j
            IN SubSeq(msg, 1, i - 1) \o requestPreview \o SubSeq(msg, i + 1, Len(msg))

RequestPreview(userContent) ==
    Substring(userContent, 0, PreviewLimit)
        \o (IF Len(userContent) > PreviewLimit THEN <<".", ".", ".">> ELSE <<>>)

ReasoningTexts(userContent) ==
    [i \in 1..Len(REASONING_MESSAGES) |->
        ReplacePreview(REASONING_MESSAGES[i], RequestPreview(userContent))]

GoodBreaks == <<" ", "\n", ".", ",", "!", "?", ";", ":">>

\* Variant: any break character found in searchSpace decides chunkEnd
ChunkEnd_AnyBreak(remainingText) ==
    LET searchSpace == Substring(remainingText, 0, THINKING_CONTENT_CHUNK_SIZE + 10)
        good == {k \in 1..Len(GoodBreaks) : LastIndexOf(searchSpace, GoodBreaks[k]) > 0}
    IN IF good = {} THEN THINKING_CONTENT_CHUNK_SIZE
       ELSE LastIndexOf(searchSpace,
                        GoodBreaks[CHOOSE k \in good : \A j \in good : k <= j]) + 1

\* The for loop over goodBreaks: the first break character whose last index in
\* searchSpace exceeds 0.7 * THINKING_CONTENT_CHUNK_SIZE decides chunkEnd.
ChunkEnd(remainingText) ==
    LET searchSpace == Substring(remainingText, 0, THINKING_CONTENT_CHUNK_SIZE + 10)
        good == {k \in 1..Len(GoodBreaks) :
                    10 * LastIndexOf(searchSpace, GoodBreaks[k])
                        > 7 * THINKING_CONTENT_CHUNK_SIZE}
    IN IF good = {} THEN THINKING_CONTENT_CHUNK_SIZE
       ELSE LastIndexOf(searchSpace,
                        GoodBreaks[CHOOSE k \in good : \A j \in good : k <= j]) + 1

RECURSIVE SplitReasoning(_)
SplitReasoning(remainingText) ==
    IF Len(remainingText) = 0 THEN <<>>
    ELSE IF Len(remainingText) <= THINKING_CONTENT_CHUNK_SIZE THEN <<remainingText>>
    ELSE LET chunkEnd == ChunkEnd(remainingText)
         IN <<Substring(remainingText, 0, chunkEnd)>>
                \o SplitReasoning(Substring(remainingText, chunkEnd, Len(remainingText)))

\* Variant: the inline preamble closes the thinking tag itself
generateReasoningOutput_Closed(userContent, streamAsContent) ==
    IF streamAsContent
    THEN LET pieces == SplitReasoning(Concat(ReasoningTexts(userContent)))
         IN <<OpenChunk>> \o [i \in 1..Len(pieces) |-> Chunk("thinking_content", pieces[i])]
                \o <<CloseChunk>>
    ELSE LET texts == ReasoningTexts(userContent)
         IN [i \in 1..Len(texts) |-> Chunk("reasoning", [reasoning |-> texts[i]])]

generateReasoningOutput(userContent, streamAsContent) ==
    IF streamAsContent
    THEN LET pieces == SplitReasoning(Concat(ReasoningTexts(userContent)))
         IN <<OpenChunk>> \o [i \in 1..Len(pieces) |-> Chunk("thinking_content", pieces[i])]
    ELSE LET texts == ReasoningTexts(userContent)
         IN [i \in 1..Len(texts) |-> Chunk("reasoning", [reasoning |-> texts[i]])]

----------------------------------------------------------------------------
(* GeminiApiClient.performStreamRequest: classification of one backend part *)

Includes(text, tok) == \E i \in 1..Len(text) : text[i] = tok

\* Index pair <<i, j>> of the leftmost "<think>" and the nearest "</think>" after it
\* (the lazy match of /<think>(.*?)<\/think>/s), or <<>> when there is no match.
ThinkMatchAt(text) ==
    LET opens == {i \in 1..Len(text) :
                    text[i] = "<think>"
                    /\ \E j \in (i + 1)..Len(text) : text[j] = "</think>"}
    IN IF opens = {} THEN <<>>
       ELSE LET i == CHOOSE k \in opens : \A m \in opens : k <= m
                closes == {j \in (i + 1)..Len(text) : text[j] = "</think>"}
                j == CHOOSE k \in closes : \A m \in closes : k <= m
            IN <<i, j>>

\* part.text.match(/<think>(.*?)<\/think>/s): None, or Some(thinkingMatch[1])
ThinkMatch(text) ==
    LET m == ThinkMatchAt(text)
    IN IF m = <<>> THEN None ELSE Some(SubSeq(text, m[1] + 1, m[2] - 1))

\* part.text.replace(/<think>.*?<\/think>/gs, "")
RECURSIVE RemoveThinkPairs(_)
RemoveThinkPairs(text) ==
    LET m == ThinkMatchAt(text)
    IN IF m = <<>> THEN text
       ELSE SubSeq(text, 1, m[1] - 1) \o RemoveThinkPairs(SubSeq(text, m[2] + 1, Len(text)))

\* CitationsProcessor.processChunk(text, groundingMetadata)
processChunk(text, groundingMetadata) ==
    IF groundingMetadata = None THEN text ELSE text \o <<"[citations]">>

\* Variant: hasClosedThinking is not consulted
ClosePending_Unguarded(ntc, rtac, started, closed) == ntc \/ (rtac /\ started)

\* The condition under which the closing marker is yielded before ordinary text
\* and before a function call.
ClosePending(ntc, rtac, started, closed) == (ntc \/ (rtac /\ started)) /\ ~closed

\* Variant: the opening marker is yielded before every thought text
OpeningMarker_Always(started) == <<OpenChunk>>

\* if (!hasStartedThinking) yield the opening marker
OpeningMarker(started) == IF ~started THEN <<OpenChunk>> ELSE <<>>

\* Chunks yielded for one part, and the two flags afterwards.
ClassifyPart(part, gm, ntc, rtac, started, closed) ==
    IF part.thought /\ part.text # <<>>
    THEN IF rtac
         THEN [out |-> OpeningMarker(started)
                          \o <<Chunk("thinking_content", part.text)>>,
               started |-> TRUE, closed |-> closed]
         ELSE [out |-> <<Chunk("real_thinking", part.text)>>,
               started |-> started, closed |-> closed]
    ELSE IF part.text # <<>> /\ Includes(part.text, "<think>")
    THEN LET thinkingMatch == ThinkMatch(part.text)
             nonThinkingContent == Trim(RemoveThinkPairs(part.text))
         IN IF rtac
            THEN LET started1 == started \/ thinkingMatch # None
                     thinking == IF thinkingMatch # None
                                 THEN OpeningMarker(started)
                                        \o <<Chunk("thinking_content", thinkingMatch[1])>>
                                 ELSE <<>>
                     closing == nonThinkingContent # <<>> /\ started1 /\ ~closed
                 IN [out |-> thinking
                              \o (IF closing THEN <<CloseChunk>> ELSE <<>>)
                              \o (IF nonThinkingContent # <<>>
                                  THEN <<Chunk("text", nonThinkingContent)>> ELSE <<>>),
                     started |-> started1, closed |-> closed \/ closing]
            ELSE [out |-> (IF thinkingMatch # None
                           THEN <<Chunk("real_thinking", thinkingMatch[1])>> ELSE <<>>)
                          \o (IF nonThinkingContent # <<>>
                              THEN <<Chunk("text", nonThinkingContent)>> ELSE <<>>),
                  started |-> started, closed |-> closed]
    ELSE IF part.text # <<>> /\ ~part.thought /\ ~Includes(part.text, "<think>")
    THEN LET closing == ClosePending(ntc, rtac, started, closed)
         IN [out |-> (IF closing THEN <<CloseChunk>> ELSE <<>>)
                      \o <<Chunk("text", processChunk(part.text, gm))>>,
             started |-> started, closed |-> closed \/ closing]
    ELSE IF part.functionCall # None
    THEN LET closing == ClosePending(ntc, rtac, started, closed)
         IN [out |-> (IF closing THEN <<CloseChunk>> ELSE <<>>)
                      \o <<Chunk("tool_code", [name |-> part.functionCall[1].name,
                                               args |-> part.functionCall[1].args])>>,
             started |-> started, closed |-> closed \/ closing]
    ELSE [out |-> <<>>, started |-> started, closed |-> closed]

\* Variant: a missing count is reported as one token
OrZero_One(count) == IF count = None THEN 1 ELSE count[1]

\* usage.promptTokenCount || 0
OrZero(count) == IF count = None THEN 0 ELSE count[1]

UsageChunk(usageMetadata) ==
    Chunk("usage", [inputTokens |-> OrZero(usageMetadata.promptTokenCount),
                    outputTokens |-> OrZero(usageMetadata.candidatesTokenCount)])

----------------------------------------------------------------------------
(* GeminiApiClient.getCompletion: the body of the for-await loop *)

\* JSON.stringify(toolData.args)
Stringify(args) == <<"json(", args, ")">>

\* Variant: a later usage chunk does not replace the one already captured
Collect_FirstUsage(acc, chunk) ==
    IF chunk.type = "text"
    THEN [acc EXCEPT !.content = @ \o chunk.data]
    ELSE IF chunk.type = "usage"
    THEN [acc EXCEPT !.usage = IF @ = None THEN Some(chunk.data) ELSE @]
    ELSE IF chunk.type = "tool_code"
    THEN [acc EXCEPT !.tool_calls =
            Append(@, [id |-> <<"call_", Len(@) + 1>>, type |-> "function",
                       function |-> [name |-> chunk.data.name,
                                     arguments |-> Stringify(chunk.data.args)]])]
    ELSE acc

Collect(acc, chunk) ==
    IF chunk.type = "text"
    THEN [acc EXCEPT !.content = @ \o chunk.data]
    ELSE IF chunk.type = "usage"
    THEN [acc EXCEPT !.usage = Some(chunk.data)]
    ELSE IF chunk.type = "tool_code"
    THEN [acc EXCEPT !.tool_calls =
            Append(@, [id |-> <<"call_", Len(@) + 1>>, type |-> "function",
                       function |-> [name |-> chunk.data.name,
                                     arguments |-> Stringify(chunk.data.args)]])]
    ELSE acc

RECURSIVE CollectAll(_, _)
CollectAll(acc, cs) == IF cs = <<>> THEN acc ELSE CollectAll(Collect(acc, Head(cs)), Tail(cs))

\* Variant: the chunks reach the consumer ahead of those yielded before them
Yield_Ahead(cs) ==
    LET acc == CollectAll([content |-> content, usage |-> usage, tool_calls |-> tool_calls], cs)
    IN /\ chunks' = cs \o chunks
       /\ content' = acc.content
       /\ usage' = acc.usage
       /\ tool_calls' = acc.tool_calls

\* The chunks are yielded to the consumer, getCompletion's loop, one by one.
Yield(cs) ==
    LET acc == CollectAll([content |-> content, usage |-> usage, tool_calls |-> tool_calls], cs)
    IN /\ chunks' = chunks \o cs
       /\ content' = acc.content
       /\ usage' = acc.usage
       /\ tool_calls' = acc.tool_calls

----------------------------------------------------------------------------
(* Inputs of the streaming model *)

Models == {"gemini-2.5-pro", "gemini-2.5-flash", "custom-model"}

UserContents == {<<"h", "i">>}

Statuses == {200, 401, 429, 500, 503}

NoCall == None
SomeCall == Some([name |-> "get_weather", args |-> "args1"])

Parts ==
    { [thought |-> TRUE,  text |-> <<"t">>, functionCall |-> NoCall],
      [thought |-> TRUE,  text |-> <<>>, functionCall |-> NoCall],
      [thought |-> FALSE, text |-> <<"a">>, functionCall |-> NoCall],
      [thought |-> FALSE, text |-> <<"<think>", "s", "</think>", " ", "r">>,
       functionCall |-> NoCall],
      [thought |-> FALSE, text |-> <<"<think>", "s", "</think>", "\n">>,
       functionCall |-> NoCall],
      [thought |-> FALSE, text |-> <<"<think>", "o", "\n">>, functionCall |-> NoCall],
      [thought |-> FALSE, text |-> <<>>, functionCall |-> SomeCall],
      [thought |-> FALSE, text |-> <<"a">>, functionCall |-> SomeCall],
      [thought |-> FALSE, text |-> <<>>, functionCall |-> NoCall] }

GroundingOptions == {None}

UsageOptions ==
    { None,
      Some([promptTokenCount |-> Some(3), candidatesTokenCount |-> None]),
      Some([promptTokenCount |-> Some(5), candidatesTokenCount |-> Some(7)]) }

StreamInit ==
    /\ mode = "stream"
    /\ pc = "start"
    /\ cfg \in [modelId : Models,
                ENABLE_FAKE_THINKING : BOOLEAN,
                ENABLE_REAL_THINKING : BOOLEAN,
                STREAM_THINKING_AS_CONTENT : BOOLEAN,
                includeReasoning : BOOLEAN,
                userContent : UserContents]
    /\ streamRequest = None
    /\ isRetry = FALSE
    /\ needsThinkingClose = FALSE
    /\ realThinkingAsContent = FALSE
    /\ hasStartedThinking = FALSE
    /\ hasClosedThinking = FALSE
    /\ chunks = <<>>
    /\ requests = <<>>
    /\ calls = <<>>
    /\ consumed = <<>>
    /\ error = Nil
    /\ content = <<>>
    /\ usage = None
    /\ tool_calls = <<>>
    /\ result = None
    /\ caught = None

----------------------------------------------------------------------------
(* GeminiApiClient.streamContent, up to the call of performStreamRequest *)

Fail(message) ==
    /\ pc' = "failed"
    /\ error' = message

StreamContent(authOk) ==
    /\ mode = "stream"
    /\ pc = "start"
    /\ calls' = Append(calls, "initializeAuth")
    /\ IF ~authOk
       THEN /\ Fail("initializeAuth failed")
            /\ UNCHANGED <<streamRequest, needsThinkingClose, realThinkingAsContent,
                           chunks, content, usage, tool_calls>>
       ELSE LET isThinkingModel == IsThinkingModel(cfg.modelId)
                isRealThinkingEnabled == cfg.ENABLE_REAL_THINKING
                isFakeThinkingEnabled == cfg.ENABLE_FAKE_THINKING
                streamThinkingAsContent == cfg.STREAM_THINKING_AS_CONTENT
                includeReasoning == cfg.includeReasoning
                generationConfig ==
                    createValidatedConfig(cfg.modelId,
                        [thinking_budget |-> None, reasoning_effort |-> Nil],
                        isRealThinkingEnabled, includeReasoning)
                fake == isThinkingModel /\ isFakeThinkingEnabled /\ ~includeReasoning
            IN /\ Yield(IF fake
                        THEN generateReasoningOutput(cfg.userContent, streamThinkingAsContent)
                        ELSE <<>>)
               /\ needsThinkingClose' = (fake /\ streamThinkingAsContent)
               /\ streamRequest' =
                    Some([model |-> cfg.modelId,
                          project |-> "project",
                          request |-> [contents |-> <<cfg.userContent>>,
                                       generationConfig |-> generationConfig,
                                       tools |-> Nil,
                                       toolConfig |-> Nil]])
               /\ realThinkingAsContent' = (includeReasoning /\ streamThinkingAsContent)
               /\ pc' = "fetch"
               /\ UNCHANGED error
    /\ UNCHANGED <<mode, cfg, isRetry, hasStartedThinking, hasClosedThinking, requests,
                   consumed, result, caught, sse, gc,
                   route, conv, project, pdf, reasoning>>

----------------------------------------------------------------------------
(* GeminiApiClient.performStreamRequest *)

\* response.ok
ResponseOk(status) == status >= 200 /\ status <= 299

\* Variant: the 401 branch does not test isRetry
RetriesAfter401_IgnoringRetry(status, retry) == status = 401

\* if (response.status === 401 && !isRetry)
RetriesAfter401(status, retry) == status = 401 /\ ~retry

\* if (isRateLimitStatus(response.status) && !isRetry && originalModel)
\*     if (fallbackModel && isEnabled())
AsksIsEnabled(status, retry, originalModel) ==
    /\ isRateLimitStatus(status)
    /\ ~retry
    /\ originalModel # ""
    /\ getFallbackModel(originalModel) # None

\* Variant: the model is switched whatever isEnabled() answers
SwitchesModel_IgnoringEnabled(status, retry, originalModel, enabled) ==
    AsksIsEnabled(status, retry, originalModel)

SwitchesModel(status, retry, originalModel, enabled) ==
    AsksIsEnabled(status, retry, originalModel) /\ enabled

\* Variant: the fallback request is built anew and loses the generation config
FallbackRequest_Rebuilt(request, fallbackModel) ==
    [request EXCEPT !.model = fallbackModel,
                    !.request.generationConfig = [thinkingConfig |-> None]]

\* Variant: the fallback request is the original request
FallbackRequest_Unchanged(request, fallbackModel) == request

\* const fallbackRequest = { ...streamRequest, model: fallbackModel }
FallbackRequest(request, fallbackModel) == [request EXCEPT !.model = fallbackModel]

\* Variant: a response without a body is read like any other
NoBody_Ignored(hasBody) == FALSE

\* if (!response.body)
NoBody(hasBody) == ~hasBody

\* One call of fetch and the branch taken on its response, up to the first frame
\* read, the recursive call, or the throw.  enabled is what isEnabled() answers.
Fetch(status, hasBody, enabled) ==
    /\ mode = "stream"
    /\ pc = "fetch"
    /\ requests' = Append(requests,
            [request |-> streamRequest[1], isRetry |-> isRetry, status |-> status,
             needsThinkingClose |-> needsThinkingClose,
             realThinkingAsContent |-> realThinkingAsContent,
             originalModel |-> cfg.modelId,
             isEnabled |-> IF AsksIsEnabled(status, isRetry, cfg.modelId)
                           THEN Some(enabled) ELSE None,
             hasBody |-> IF ResponseOk(status) THEN Some(hasBody) ELSE None,
             chunksBefore |-> Len(chunks), callsBefore |-> Len(calls)])
    /\ IF ResponseOk(status)
       THEN /\ IF NoBody(hasBody)
               THEN Fail("Response has no body")
               ELSE /\ pc' = "stream"
                    /\ UNCHANGED error
            /\ hasClosedThinking' = FALSE
            /\ hasStartedThinking' = FALSE
            /\ UNCHANGED <<streamRequest, isRetry, chunks, content, usage, tool_calls>>
       ELSE IF RetriesAfter401(status, isRetry)
       THEN /\ pc' = "clearTokenCache"
            /\ UNCHANGED <<streamRequest, isRetry, hasStartedThinking, hasClosedThinking,
                           chunks, content, usage, tool_calls, error>>
       ELSE IF SwitchesModel(status, isRetry, cfg.modelId, enabled)
       THEN LET fallbackModel == getFallbackModel(cfg.modelId)[1]
            IN /\ Yield(<<Chunk("text",
                                createSwitchNotification(cfg.modelId, fallbackModel))>>)
               /\ streamRequest' = Some(FallbackRequest(streamRequest[1], fallbackModel))
               /\ isRetry' = TRUE
               /\ pc' = "fetch"
               /\ UNCHANGED <<hasStartedThinking, hasClosedThinking, error>>
       ELSE /\ Fail("Stream request failed: " \o ToString(status))
            /\ UNCHANGED <<streamRequest, isRetry, hasStartedThinking, hasClosedThinking,
                           chunks, content, usage, tool_calls>>
    /\ UNCHANGED <<mode, cfg, needsThinkingClose, realThinkingAsContent, calls, consumed,
                   result, caught, sse, gc,
                   route, conv, project, pdf, reasoning>>

\* await this.authManager.clearTokenCache()
ClearTokenCache(ok) ==
    /\ mode = "stream"
    /\ pc = "clearTokenCache"
    /\ calls' = Append(calls, "clearTokenCache")
    /\ IF ok THEN pc' = "initializeAuth" /\ UNCHANGED error
             ELSE Fail("clearTokenCache failed")
    /\ UNCHANGED <<mode, cfg, streamRequest, isRetry, needsThinkingClose,
                   realThinkingAsContent, hasStartedThinking, hasClosedThinking, chunks,
                   requests, consumed, content, usage, tool_calls, result, caught, sse, gc,
                   route, conv, project, pdf, reasoning>>

\* Variant: the retry is made without reinitializing authentication
InitializeAuth_Skipped(ok) ==
    /\ mode = "stream"
    /\ pc = "initializeAuth"
    /\ pc' = "fetch"
    /\ isRetry' = TRUE
    /\ UNCHANGED <<mode, cfg, streamRequest, needsThinkingClose, calls, error,
                   realThinkingAsContent, hasStartedThinking, hasClosedThinking, chunks,
                   requests, consumed, content, usage, tool_calls, result, caught, sse, gc,
                   route, conv, project, pdf, reasoning>>

\* await this.authManager.initializeAuth(), then the recursive call with isRetry = true
InitializeAuth(ok) ==
    /\ mode = "stream"
    /\ pc = "initializeAuth"
    /\ calls' = Append(calls, "initializeAuth")
    /\ IF ok THEN pc' = "fetch" /\ isRetry' = TRUE /\ UNCHANGED error
             ELSE Fail("initializeAuth failed") /\ UNCHANGED isRetry
    /\ UNCHANGED <<mode, cfg, streamRequest, needsThinkingClose,
                   realThinkingAsContent, hasStartedThinking, hasClosedThinking, chunks,
                   requests, consumed, content, usage, tool_calls, result, caught, sse, gc,
                   route, conv, project, pdf, reasoning>>

\* One part of candidates[0].content.parts of the frame being classified
Part(part, gm) ==
    /\ mode = "stream"
    /\ pc = "stream"
    /\ Len(consumed) < MaxEvents
    /\ LET r == ClassifyPart(part, gm, needsThinkingClose, realThinkingAsContent,
                             hasStartedThinking, hasClosedThinking)
       IN /\ Yield(r.out)
          /\ hasStartedThinking' = r.started
          /\ hasClosedThinking' = r.closed
    /\ consumed' = Append(consumed, [kind |-> "part", part |-> part,
                                     emittedBefore |-> Len(chunks)])
    /\ UNCHANGED <<mode, pc, cfg, streamRequest, isRetry, needsThinkingClose,
                   realThinkingAsContent, requests, calls, error, result, caught, sse, gc,
                   route, conv, project, pdf, reasoning>>

\* The end of a frame: its usageMetadata, when present, yields a usage chunk
FrameEnd(usageMetadata) ==
    /\ mode = "stream"
    /\ pc = "stream"
    /\ Len(consumed) < MaxEvents
    /\ Yield(IF usageMetadata # None THEN <<UsageChunk(usageMetadata[1])>> ELSE <<>>)
    /\ consumed' = Append(consumed, [kind |-> "frameEnd", usageMetadata |-> usageMetadata,
                                     emittedBefore |-> Len(chunks)])
    /\ UNCHANGED <<mode, pc, cfg, streamRequest, isRetry, needsThinkingClose,
                   realThinkingAsContent, hasStartedThinking, hasClosedThinking,
                   requests, calls, error, result, caught, sse, gc,
                   route, conv, project, pdf, reasoning>>

\* The response stream ends; getCompletion returns what it collected
StreamEnd ==
    /\ mode = "stream"
    /\ pc = "stream"
    /\ pc' = "done"
    /\ result' = Some([content |-> content,
                       usage |-> usage,
                       tool_calls |-> IF Len(tool_calls) > 0 THEN Some(tool_calls) ELSE None])
    /\ UNCHANGED <<mode, cfg, streamRequest, isRetry, needsThinkingClose,
                   realThinkingAsContent, hasStartedThinking, hasClosedThinking, chunks,
                   requests, calls, consumed, error, content, usage, tool_calls, caught, sse, gc,
                   route, conv, project, pdf, reasoning>>

\* Variant: a failure while the body is read sends the request again
StreamFails_Retried ==
    /\ mode = "stream"
    /\ pc = "stream"
    /\ IF isRetry THEN Fail("read failed") /\ UNCHANGED isRetry
                  ELSE pc' = "fetch" /\ isRetry' = TRUE /\ UNCHANGED error
    /\ UNCHANGED <<mode, cfg, streamRequest, needsThinkingClose,
                   realThinkingAsContent, hasStartedThinking, hasClosedThinking, chunks,
                   requests, calls, consumed, content, usage, tool_calls, result, caught, sse, gc,
                   route, conv, project, pdf, reasoning>>

\* Reading the response body fails
StreamFails ==
    /\ mode = "stream"
    /\ pc = "stream"
    /\ Fail("read failed")
    /\ UNCHANGED <<mode, cfg, streamRequest, isRetry, needsThinkingClose,
                   realThinkingAsContent, hasStartedThinking, hasClosedThinking, chunks,
                   requests, calls, consumed, content, usage, tool_calls, result, caught, sse, gc,
                   route, conv, project, pdf, reasoning>>

----------------------------------------------------------------------------
(* GeminiApiClient.getCompletion: the catch block around the drained stream *)

\* What handleNonStreamingFallback can return: nothing, or a completion
FallbackCompletion == [content |-> <<"f">>, usage |-> None, tool_calls |-> None]

FallbackResults == {None, Some(FallbackCompletion)}

\* Variant: the fallback helper is asked whatever the error is
InvokesFallback_Always(isRateLimitError) == TRUE

\* if (this.autoSwitchHelper.isRateLimitError(error))
InvokesFallback(isRateLimitError) == isRateLimitError

\* The arguments getCompletion hands to handleNonStreamingFallback
FallbackArguments ==
    [modelId |-> cfg.modelId,
     messages |-> cfg.userContent,
     options |-> [includeReasoning |-> cfg.includeReasoning]]

\* catch (error): isRateLimitError is what the helper answers about the error,
\* fallbackResult what handleNonStreamingFallback returns if it is called
Catch(isRateLimitError, fallbackResult) ==
    /\ mode = "stream"
    /\ pc = "failed"
    /\ caught = None
    /\ LET invoked == InvokesFallback(isRateLimitError)
           returned == IF invoked THEN fallbackResult ELSE None
       IN /\ caught' = Some([isRateLimitError |-> isRateLimitError,
                             fallbackCalls |-> IF invoked THEN <<FallbackArguments>>
                                                          ELSE <<>>,
                             rethrown |-> IF returned = None THEN Some(error) ELSE None])
          /\ result' = returned
    /\ UNCHANGED <<mode, pc, cfg, streamRequest, isRetry, needsThinkingClose,
                   realThinkingAsContent, hasStartedThinking, hasClosedThinking, chunks,
                   requests, calls, consumed, error, content, usage, tool_calls, sse, gc,
                   route, conv, project, pdf, reasoning>>

StreamNext ==
    \/ \E authOk \in BOOLEAN : StreamContent(authOk)
    \/ \E status \in Statuses, hasBody \in BOOLEAN, enabled \in BOOLEAN :
            Fetch(status, hasBody, enabled)
    \/ \E ok \in BOOLEAN : ClearTokenCache(ok)
    \/ \E ok \in BOOLEAN : InitializeAuth(ok)
    \/ \E part \in Parts, gm \in GroundingOptions : Part(part, gm)
    \/ \E usageMetadata \in UsageOptions : FrameEnd(usageMetadata)
    \/ StreamEnd
    \/ StreamFails
    \/ \E isRateLimitError \in BOOLEAN, fallbackResult \in FallbackResults :
            Catch(isRateLimitError, fallbackResult)

StreamIdle ==
    /\ pc = "idle"
    /\ cfg = None
    /\ streamRequest = None
    /\ isRetry = FALSE
    /\ needsThinkingClose = FALSE
    /\ realThinkingAsContent = FALSE
    /\ hasStartedThinking = FALSE
    /\ hasClosedThinking = FALSE
    /\ chunks = <<>>
    /\ requests = <<>>
    /\ calls = <<>>
    /\ consumed = <<>>
    /\ error = Nil
    /\ content = <<>>
    /\ usage = None
    /\ tool_calls = <<>>
    /\ result = None
    /\ caught = None

Init ==
    /\ StreamInit
    /\ sse = None
    /\ gc = None
    /\ route = None
    /\ conv = None
    /\ project = None
    /\ pdf = None
    /\ reasoning = None

Next == StreamNext

Spec == Init /\ [][Next]_vars

----------------------------------------------------------------------------
(* GeminiApiClient.parseSSEStream *)

\* String.prototype.split("\n")
RECURSIVE SplitLines(_)
SplitLines(s) ==
    LET nl == {i \in 1..Len(s) : s[i] = "\n"}
    IN IF nl = {} THEN <<s>>
       ELSE LET i == CHOOSE k \in nl : \A j \in nl : k <= j
            IN <<SubSeq(s, 1, i - 1)>> \o SplitLines(SubSeq(s, i + 1, Len(s)))

DataPrefix == <<"d", "a", "t", "a", ":", " ">>

\* JSON.parse succeeds: over the alphabet of the model a payload is valid JSON
\* exactly when it is a number, a non-empty run of the digit 1.
JsonParses(payload) ==
    payload # <<>> /\ \A i \in 1..Len(payload) : payload[i] = "1"

\* Variant: the payload is emptied only when it parsed
AfterParse_KeptOnError(objectBuffer) ==
    IF JsonParses(objectBuffer) THEN <<>> ELSE objectBuffer

\* objectBuffer after a blank line whose payload has been handed to JSON.parse
AfterParse(objectBuffer) == <<>>

\* Variant: a data line is appended whole, prefix included
LineData_WithPrefix(line) == line

\* line.substring(6)
LineData(line) == Substring(line, 6, Len(line))

\* One JSON.parse call: the payload handed to it and where the loop stood
ParseAttempt(objectBuffer, at) == [payload |-> objectBuffer, at |-> at]

\* The body of the for loop over the complete lines of one read
RECURSIVE ProcessLines(_, _, _, _)
ProcessLines(lines, objectBuffer, frames, attempts) ==
    IF lines = <<>>
    THEN [objectBuffer |-> objectBuffer, frames |-> frames, attempts |-> attempts]
    ELSE LET line == Head(lines)
         IN IF Trim(line) = <<>>
            THEN IF objectBuffer # <<>>
                 THEN ProcessLines(Tail(lines), AfterParse(objectBuffer),
                                   IF JsonParses(objectBuffer)
                                   THEN Append(frames, objectBuffer) ELSE frames,
                                   Append(attempts, ParseAttempt(objectBuffer, "blank")))
                 ELSE ProcessLines(Tail(lines), objectBuffer, frames, attempts)
            ELSE IF StartsWith(line, DataPrefix)
            THEN ProcessLines(Tail(lines), objectBuffer \o LineData(line), frames, attempts)
            ELSE ProcessLines(Tail(lines), objectBuffer, frames, attempts)

\* Variant: the incomplete last line is not kept across reads
KeptLine_Dropped(lines) == <<>>

\* buffer = lines.pop() || ""
KeptLine(lines) == lines[Len(lines)]

\* One iteration of the while loop with done = false: the locals afterwards
ReadValue(st, value) ==
    LET lines == SplitLines(st.buffer \o value)
        r == ProcessLines(SubSeq(lines, 1, Len(lines) - 1), st.objectBuffer, st.frames,
                          st.attempts)
    IN [buffer |-> KeptLine(lines), objectBuffer |-> r.objectBuffer, frames |-> r.frames,
        attempts |-> r.attempts]

\* The iteration with done = true
ReadDone(st) ==
    [st EXCEPT !.frames = IF st.objectBuffer # <<>> /\ JsonParses(st.objectBuffer)
                          THEN Append(@, st.objectBuffer) ELSE @,
               !.attempts = IF st.objectBuffer # <<>>
                            THEN Append(@, ParseAttempt(st.objectBuffer, "end")) ELSE @]

SSELineSet ==
    { <<"d", "a", "t", "a", ":", " ", "1">>,
      <<"d", "a", "t", "a", ":", " ", "!">>,
      <<>>,
      <<" ">>,
      <<"x">> }

LineSeqs == UNION {[1..n -> SSELineSet] : n \in 0..MaxLines}

\* The lines joined by "\n"; the last line is terminated or not
RECURSIVE Render(_, _)
Render(ls, terminated) ==
    IF ls = <<>> THEN <<>>
    ELSE IF Len(ls) = 1 THEN Head(ls) \o (IF terminated THEN <<"\n">> ELSE <<>>)
    ELSE Head(ls) \o <<"\n">> \o Render(Tail(ls), terminated)

SSETexts == {Render(ls, t) : ls \in LineSeqs, t \in BOOLEAN}

SSEInit ==
    /\ mode = "sse"
    /\ StreamIdle
    /\ gc = None
    /\ route = None
    /\ conv = None
    /\ project = None
    /\ pdf = None
    /\ reasoning = None
    /\ \E text \in SSETexts :
          sse = [text |-> text, pos |-> 0, reads |-> 0, done |-> FALSE,
                 buffer |-> <<>>, objectBuffer |-> <<>>, frames |-> <<>>,
                 attempts |-> <<>>]

SSELocals(st) ==
    [buffer |-> st.buffer, objectBuffer |-> st.objectBuffer, frames |-> st.frames,
     attempts |-> st.attempts]

\* reader.read() delivers the next n characters of the stream
Read(n) ==
    /\ mode = "sse"
    /\ ~sse.done
    /\ sse.pos + n <= Len(sse.text)
    /\ LET st == ReadValue(SSELocals(sse), SubSeq(sse.text, sse.pos + 1, sse.pos + n))
       IN sse' = [sse EXCEPT !.pos = @ + n, !.reads = @ + 1, !.buffer = st.buffer,
                             !.objectBuffer = st.objectBuffer, !.frames = st.frames,
                             !.attempts = st.attempts]
    /\ UNCHANGED <<mode, streamVars, gc, route, conv, project, pdf, reasoning>>

\* reader.read() reports the end of the stream
ReadEnd ==
    /\ mode = "sse"
    /\ ~sse.done
    /\ sse.pos = Len(sse.text)
    /\ LET st == ReadDone(SSELocals(sse))
       IN sse' = [sse EXCEPT !.done = TRUE, !.frames = st.frames, !.attempts = st.attempts]
    /\ UNCHANGED <<mode, streamVars, gc, route, conv, project, pdf, reasoning>>

SSENext ==
    \/ \E n \in 1..Len(sse.text) : Read(n)
    \/ ReadEnd

SpecSSE == SSEInit /\ [][SSENext]_vars

----------------------------------------------------------------------------
(* GenerationConfigValidator.createValidatedConfig as called with request options *)

ConfigModels == RegisteredModels \cup {"custom-model"}

BudgetOptions == {None} \cup {Some(b) : b \in (-MaxBudget)..MaxBudget}

EffortOptions == {Nil, "none", "low", "medium", "high", "maximum"}

ConfigInit ==
    /\ mode = "config"
    /\ StreamIdle
    /\ sse = None
    /\ route = None
    /\ conv = None
    /\ project = None
    /\ pdf = None
    /\ reasoning = None
    /\ \E modelId \in ConfigModels, budget \in BudgetOptions, effort \in EffortOptions,
          real \in BOOLEAN, incl \in BOOLEAN :
          gc = [modelId |-> modelId,
                options |-> [thinking_budget |-> budget, reasoning_effort |-> effort],
                isRealThinkingEnabled |-> real,
                includeReasoning |-> incl,
                config |-> None,
                validated |-> None]

CreateValidatedConfig ==
    /\ mode = "config"
    /\ gc.config = None
    /\ gc' = [gc EXCEPT !.config =
                Some(createValidatedConfig(gc.modelId, gc.options,
                                           gc.isRealThinkingEnabled, gc.includeReasoning))]
    /\ UNCHANGED <<mode, streamVars, sse, route, conv, project, pdf, reasoning>>

\* validateThinkingBudget applied to the requested budget, and again to its result
ValidateThinkingBudget ==
    /\ mode = "config"
    /\ gc.validated = None
    /\ gc.options.thinking_budget # None
    /\ LET once == validateThinkingBudget(gc.modelId, gc.options.thinking_budget[1])
       IN gc' = [gc EXCEPT !.validated =
                    Some([once |-> once,
                          twice |-> validateThinkingBudget(gc.modelId, once)])]
    /\ UNCHANGED <<mode, streamVars, sse, route, conv, project, pdf, reasoning>>

ConfigNext == CreateValidatedConfig \/ ValidateThinkingBudget

SpecConfig == ConfigInit /\ [][ConfigNext]_vars

----------------------------------------------------------------------------
(* validateContent and GeminiApiClient.messageToGeminiFormat *)

\* String.prototype.split(separator), on a token sequence
RECURSIVE Split(_, _)
Split(s, sep) ==
    IF \A i \in 1..Len(s) : s[i] # sep
    THEN <<s>>
    ELSE LET k == CHOOSE i \in 1..Len(s) : s[i] = sep /\ \A j \in 1..(i - 1) : s[j] # sep
         IN <<SubSeq(s, 1, k - 1)>> \o Split(SubSeq(s, k + 1, Len(s)), sep)

\* A MessageContent with every optional field absent
BareContent(type) ==
    [type |-> type, text |-> None, image_url |-> None, input_audio |-> None,
     input_video |-> None, input_pdf |-> None]

DataUrl == <<"data", ":", "image/png", ";", "base64", ",", "AAAA">>
PngUrl == <<"https://", "host", "/i", ".png">>
PlainUrl == <<"https://", "host", "/i">>
FtpUrl == <<"ftp://", "host", "/i", ".png">>

\* Base64 text is a sequence of four-character groups, one token each
PdfBase64 == <<"JVBE", "Ri0x", "LjQK">>
PdfDataUri == <<"data:application/pdf;base64,">> \o PdfBase64
TextBase64 == <<"aGVs", "bG8h">>
NotBase64 == <<"!!!!">>

\* validateImageUrl: a data URI carrying a MIME type and a base64 payload, or a
\* well-formed http(s) URL whose extension, when known, gives the MIME type
validateImageUrl(url) ==
    IF StartsWith(url, <<"data", ":">>)
    THEN LET halves == Split(url, ",")
         IN [isValid |-> /\ Len(halves) = 2
                         /\ Len(halves[1]) = 5
                         /\ halves[2] # <<>>,
             mimeType |-> IF Len(url) >= 3 THEN Some(url[3]) ELSE None]
    ELSE IF StartsWith(url, <<"https://">>) \/ StartsWith(url, <<"http://">>)
    THEN [isValid |-> TRUE,
          mimeType |-> IF url[Len(url)] = ".png" THEN Some("image/png") ELSE None]
    ELSE [isValid |-> FALSE, mimeType |-> None]

\* The three characters a base64 group decodes to
Base64Groups ==
    [g \in {"JVBE", "Ri0x", "LjQK", "aGVs", "bG8h", "AAAA"} |->
        CASE g = "JVBE" -> <<"%", "P", "D">>
          [] g = "Ri0x" -> <<"F", "-", "1">>
          [] g = "LjQK" -> <<".", "4", "\n">>
          [] g = "aGVs" -> <<"h", "e", "l">>
          [] g = "bG8h" -> <<"l", "o", "!">>
          [] OTHER -> <<"\\0", "\\0", "\\0">>]

\* atob: the decoded characters, None when atob throws because some group of
\* the string is no base64
Atob(b64) ==
    IF \E i \in 1..Len(b64) : b64[i] \notin DOMAIN Base64Groups
    THEN None
    ELSE Some(Concat([i \in 1..Len(b64) |-> Base64Groups[b64[i]]]))

\* cleanBase64.substring(0, 20): the number of characters handed to atob
SignatureChars == 20

PdfSignature == <<"%", "P", "D", "F", "-">>

\* atob(cleanBase64.substring(0, 20)), a group being four characters
Decoded(cleanBase64) == Atob(Substring(cleanBase64, 0, SignatureChars \div 4))

validatePdfBase64(base64String) ==
    LET cleanBase64 == IF StartsWith(base64String, <<"data:application/pdf;base64,">>)
                       THEN Tail(base64String) ELSE base64String
        decoded == Decoded(cleanBase64)
    IN decoded # None /\ StartsWith(decoded[1], PdfSignature)

Valid(mimeType) == [isValid |-> TRUE, error |-> Nil, mimeType |-> mimeType]
Invalid(message) == [isValid |-> FALSE, error |-> message, mimeType |-> None]

validateContent(type, part) ==
    CASE type = "image_url" ->
            LET imageUrl == IF part.image_url = None THEN <<>>
                            ELSE part.image_url[1].url
            IN IF imageUrl = <<>> THEN Invalid("Missing image URL.")
               ELSE IF ~validateImageUrl(imageUrl).isValid
               THEN Invalid("Invalid image URL or format.")
               ELSE Valid(validateImageUrl(imageUrl).mimeType)
      [] type = "input_pdf" ->
            LET pdfData == IF part.input_pdf = None THEN <<>>
                           ELSE part.input_pdf[1].data
            IN IF pdfData = <<>> THEN Invalid("Missing PDF data.")
               ELSE IF ~validatePdfBase64(pdfData)
               THEN Invalid("Invalid PDF data. Please ensure the content is a valid base64 encoded PDF.")
               ELSE Valid(None)
      [] OTHER -> Valid(None)

\* A backend part; index is the position of the ContentPart it was made from
GeminiPart(kind, mimeType, data, index) ==
    [kind |-> kind, mimeType |-> mimeType, data |-> data, index |-> index]

Pushed(part) == [threw |-> FALSE, error |-> Nil, parts |-> <<part>>]
Skipped == [threw |-> FALSE, error |-> Nil, parts |-> <<>>]
Thrown(message) == [threw |-> TRUE, error |-> message, parts |-> <<>>]

\* if (part.input_pdf.data)
PdfHasData(part) == part.input_pdf[1].data # <<>>

\* part.type === "image_url" && part.image_url
HasImageUrl(part) == part.image_url # None

\* One iteration of the loop over msg.content
ConvertContent(part, index) ==
    IF part.type = "text"
    THEN Pushed(GeminiPart("text", Nil, part.text, index))
    ELSE IF part.type = "image_url" /\ HasImageUrl(part)
    THEN LET validation == validateContent("image_url", part)
         IN IF ~validation.isValid
            THEN Thrown("Invalid image: " \o validation.error)
            ELSE LET imageUrl == part.image_url[1].url
                 IN IF StartsWith(imageUrl, <<"data", ":">>)
                    THEN LET halves == Split(imageUrl, ",")
                             mediaType == Split(Split(halves[1], ":")[2], ";")[1]
                         IN Pushed(GeminiPart("inlineData", mediaType, halves[2], index))
                    ELSE Pushed(GeminiPart("fileData",
                                    IF validation.mimeType = None THEN <<"image/jpeg">>
                                    ELSE <<validation.mimeType[1]>>,
                                    imageUrl, index))
    ELSE IF part.type = "input_audio" /\ part.input_audio # None
    THEN Pushed(GeminiPart("inlineData", part.input_audio[1].format,
                           part.input_audio[1].data, index))
    ELSE IF part.type = "input_video" /\ part.input_video # None
    THEN IF part.input_video[1].data # <<>> /\ part.input_video[1].format # <<>>
         THEN Pushed(GeminiPart("inlineData", part.input_video[1].format,
                                part.input_video[1].data, index))
         ELSE Skipped
    ELSE IF part.type = "input_pdf" /\ part.input_pdf # None
    THEN IF PdfHasData(part)
         THEN LET validation == validateContent("input_pdf", part)
              IN IF ~validation.isValid
                 THEN Thrown("Invalid PDF: " \o validation.error)
                 ELSE Pushed(GeminiPart("inlineData", <<"application/pdf">>,
                                        part.input_pdf[1].data, index))
         ELSE Skipped
    ELSE Skipped

RECURSIVE ConvertFrom(_, _, _)
ConvertFrom(contents, index, parts) ==
    IF index > Len(contents)
    THEN [threw |-> FALSE, error |-> Nil, parts |-> parts]
    ELSE LET step == ConvertContent(contents[index], index)
         IN IF step.threw THEN Thrown(step.error)
            ELSE ConvertFrom(contents, index + 1, parts \o step.parts)

\* messageToGeminiFormat for a message whose content is a string or a list
messageToGeminiFormat(msg) ==
    LET role == IF msg.role = "assistant" THEN "model" ELSE "user"
        outcome == IF msg.isText
                   THEN Pushed(GeminiPart("text", Nil, msg.content, 1))
                   ELSE ConvertFrom(msg.content, 1, <<>>)
    IN [threw |-> outcome.threw, error |-> outcome.error, role |-> role,
        parts |-> outcome.parts]

TextContent == [BareContent("text") EXCEPT !.text = <<"a">>]

ImageContents ==
    {BareContent("image_url")} \cup
    {[BareContent("image_url") EXCEPT !.image_url = Some([url |-> u])] :
        u \in {<<>>, DataUrl, PngUrl, PlainUrl, FtpUrl}}

AudioContents ==
    {BareContent("input_audio"),
     [BareContent("input_audio") EXCEPT
         !.input_audio = Some([data |-> <<"AAAA">>, format |-> <<"audio/wav">>])]}

VideoContents ==
    {BareContent("input_video")} \cup
    {[BareContent("input_video") EXCEPT !.input_video = Some([data |-> d, format |-> f])] :
        d \in {<<>>, <<"AAAA">>}, f \in {<<"video/mp4">>}}

PdfContents ==
    {BareContent("input_pdf")} \cup
    {[BareContent("input_pdf") EXCEPT !.input_pdf = Some([data |-> d])] :
        d \in {<<>>, PdfBase64, PdfDataUri, TextBase64, NotBase64}}

ContentParts ==
    {TextContent} \cup ImageContents \cup AudioContents \cup VideoContents
        \cup PdfContents

RECURSIVE SeqsUpTo(_, _)
SeqsUpTo(S, n) ==
    IF n = 0 THEN {<<>>}
    ELSE LET shorter == SeqsUpTo(S, n - 1)
         IN shorter \cup {Append(s, x) : s \in {t \in shorter : Len(t) = n - 1}, x \in S}

ListMessage(role, contents) == [role |-> role, isText |-> FALSE, content |-> contents]
TextMessage(role, text) == [role |-> role, isText |-> TRUE, content |-> text]

ConvInit ==
    /\ mode = "convert"
    /\ StreamIdle
    /\ sse = None
    /\ gc = None
    /\ route = None
    /\ project = None
    /\ pdf = None
    /\ reasoning = None
    /\ \E role \in {"user", "assistant"}, contents \in SeqsUpTo(ContentParts, MaxParts) :
          conv = [msg |-> ListMessage(role, contents), outcome |-> None]

MessageToGeminiFormat ==
    /\ mode = "convert"
    /\ conv.outcome = None
    /\ conv' = [conv EXCEPT !.outcome = Some(messageToGeminiFormat(conv.msg))]
    /\ UNCHANGED <<mode, streamVars, sse, gc, route, project, pdf, reasoning>>

ConvNext == MessageToGeminiFormat

SpecConvert == ConvInit /\ [][ConvNext]_vars

----------------------------------------------------------------------------
(* POST /chat/completions (OpenAIRoute) *)

DEFAULT_MODEL == "gemini-2.5-flash"

\* isMediaTypeSupported: every registered model has all four support flags set
isMediaTypeSupported(modelId, supportKey) == modelId \in RegisteredModels

\* Variant: every model id is accepted
validateModel_AcceptsAll(modelId) == Valid(None)

validateModel(modelId) ==
    IF modelId \notin RegisteredModels
    THEN Invalid("Model '" \o modelId \o "' not found.")
    ELSE Valid(None)

\* Variant: effort "none" leaves includeReasoning as the effort set it
ApplyReasoningEffort_NoneKeepsReasoning(reasoning_effort, model, includeReasoning0, thinkingBudget0) ==
    IF reasoning_effort = Nil
    THEN [includeReasoning |-> includeReasoning0, thinkingBudget |-> thinkingBudget0]
    ELSE [includeReasoning |-> TRUE,
          thinkingBudget |->
              CASE reasoning_effort = "low" -> 1024
                [] reasoning_effort = "medium" -> IF IsFlashModel(model) THEN 12288 ELSE 16384
                [] reasoning_effort = "high" -> IF IsFlashModel(model) THEN 24576 ELSE 32768
                [] reasoning_effort = "none" -> 0
                [] OTHER -> thinkingBudget0]

\* Variant: an explicit thinking_budget is kept when an effort level is given
ApplyReasoningEffort_BudgetKept(reasoning_effort, model, includeReasoning0, thinkingBudget0) ==
    IF reasoning_effort = Nil
    THEN [includeReasoning |-> includeReasoning0, thinkingBudget |-> thinkingBudget0]
    ELSE [includeReasoning |-> reasoning_effort # "none",
          thinkingBudget |-> thinkingBudget0]

\* if (reasoning_effort) { includeReasoning = true; switch (reasoning_effort) ... }
ApplyReasoningEffort(reasoning_effort, model, includeReasoning0, thinkingBudget0) ==
    IF reasoning_effort = Nil
    THEN [includeReasoning |-> includeReasoning0, thinkingBudget |-> thinkingBudget0]
    ELSE [includeReasoning |-> reasoning_effort # "none",
          thinkingBudget |->
              CASE reasoning_effort = "low" -> 1024
                [] reasoning_effort = "medium" -> IF IsFlashModel(model) THEN 12288 ELSE 16384
                [] reasoning_effort = "high" -> IF IsFlashModel(model) THEN 24576 ELSE 32768
                [] reasoning_effort = "none" -> 0
                [] OTHER -> thinkingBudget0]

MediaTypes == <<"image_url", "input_audio", "input_video", "input_pdf">>

\* msg.content of the messages whose content is a list, one after the other
RECURSIVE ListContents(_)
ListContents(messages) ==
    IF messages = <<>> THEN <<>>
    ELSE (IF Head(messages).isText THEN <<>> ELSE Head(messages).content)
             \o ListContents(Tail(messages))

\* The error of one entry of mediaChecks, Nil when the check passes
MediaCheck(model, messages, type) ==
    LET ofType == SelectSeq(ListContents(messages), LAMBDA part : part.type = type)
        failing == {i \in 1..Len(ofType) : ~validateContent(type, ofType[i]).isValid}
    IN IF ofType = <<>> THEN Nil
       ELSE IF ~isMediaTypeSupported(model, type)
       THEN "Model '" \o model \o "' does not support this input."
       ELSE IF failing = {} THEN Nil
       ELSE validateContent(type, ofType[Least(failing)]).error

RECURSIVE MediaChecks(_, _, _)
MediaChecks(model, messages, k) ==
    IF k > Len(MediaTypes) THEN Nil
    ELSE LET e == MediaCheck(model, messages, MediaTypes[k])
         IN IF e # Nil THEN e ELSE MediaChecks(model, messages, k + 1)

\* The validations of the handler, in order: the error of the 400 response, or Nil
ValidateRequest(model, messages) ==
    IF Len(messages) = 0 THEN "messages is a required field"
    ELSE IF ~validateModel(model).isValid THEN validateModel(model).error
    ELSE MediaChecks(model, messages, 1)

\* messages.filter(msg => msg.role !== "system")
OtherMessages(messages) == SelectSeq(messages, LAMBDA msg : msg.role # "system")

\* The error thrown by messages.map(messageToGeminiFormat), None when none throws
FirstThrown(outcomes) ==
    IF \A i \in 1..Len(outcomes) : ~outcomes[i].threw THEN None
    ELSE Some(outcomes[Least({i \in 1..Len(outcomes) : outcomes[i].threw})].error)

ConversionError(messages) ==
    FirstThrown([i \in 1..Len(messages) |-> messageToGeminiFormat(messages[i])])

\* The thinkingConfig streamContent builds from the options the handler passes
StreamContentConfig(model, isRealThinkingEnabled, includeReasoning0, thinkingBudget) ==
    createValidatedConfig(model,
        [thinking_budget |-> Some(thinkingBudget), reasoning_effort |-> Nil],
        isRealThinkingEnabled, includeReasoning0)

\* Variant: the catch block closes the output without writing
ErrorChunks_None(errorMessage) == <<>>

\* writer.write({ type: "text", data: `Error: ${errorMessage}` })
ErrorChunks(errorMessage) == <<Chunk("text", <<"Error: ", errorMessage>>)>>

RouteModels == {Nil, "gemini-2.5-pro", "gemini-2.5-flash", "custom-model"}

RouteBudgets == {None, Some(0), Some(2048)}

UserText == TextMessage("user", <<"h", "i">>)

RouteMessageLists ==
    {<<>>, <<UserText>>}
        \cup {<<ListMessage("user", <<part>>)>> : part \in ContentParts}
        \cup {<<ListMessage("system", <<part>>), UserText>> : part \in ContentParts}
        \cup {<<UserText, ListMessage("user", <<TextContent, part>>)>> :
                part \in ContentParts}

StreamErrors == {"Stream request failed: 500", "Response has no body"}

RouteInit ==
    /\ mode = "route"
    /\ StreamIdle
    /\ sse = None
    /\ gc = None
    /\ conv = None
    /\ project = None
    /\ pdf = None
    /\ reasoning = None
    /\ \E model \in RouteModels, messages \in RouteMessageLists, stream \in BOOLEAN,
          budget \in RouteBudgets, effort \in EffortOptions, real \in BOOLEAN :
          route = [body |-> [model |-> model, messages |-> messages, stream |-> stream,
                             thinking_budget |-> budget, reasoning_effort |-> effort],
                   ENABLE_REAL_THINKING |-> real,
                   pc |-> "parse",
                   model |-> Nil,
                   includeReasoning |-> FALSE,
                   thinkingBudget |-> DEFAULT_THINKING_BUDGET,
                   calls |-> <<>>,
                   response |-> None,
                   generationConfig |-> None,
                   conversionError |-> None,
                   written |-> <<>>,
                   streamError |-> None,
                   closed |-> FALSE]

\* Lines 36-93: defaults and the effort switch
ParseRequest ==
    /\ mode = "route"
    /\ route.pc = "parse"
    /\ LET model == IF route.body.model = Nil THEN DEFAULT_MODEL ELSE route.body.model
           isRealThinkingEnabled == route.ENABLE_REAL_THINKING
           thinkingBudget0 == IF route.body.thinking_budget = None
                              THEN DEFAULT_THINKING_BUDGET
                              ELSE route.body.thinking_budget[1]
           applied == ApplyReasoningEffort(route.body.reasoning_effort, model,
                                           isRealThinkingEnabled, thinkingBudget0)
       IN route' = [route EXCEPT !.pc = "validate",
                                 !.model = model,
                                 !.includeReasoning = applied.includeReasoning,
                                 !.thinkingBudget = applied.thinkingBudget]
    /\ UNCHANGED <<mode, streamVars, sse, gc, conv, project, pdf, reasoning>>

\* Lines 95-163: the 400 responses
Validate ==
    /\ mode = "route"
    /\ route.pc = "validate"
    /\ LET e == ValidateRequest(route.model, route.body.messages)
       IN route' = IF e # Nil
                   THEN [route EXCEPT !.pc = "done",
                                      !.response = Some([status |-> 400, error |-> e])]
                   ELSE [route EXCEPT !.pc = "auth"]
    /\ UNCHANGED <<mode, streamVars, sse, gc, conv, project, pdf, reasoning>>

\* Lines 165-178: rotateCredentials, then initializeAuth inside its own try
Authenticate(ok) ==
    /\ mode = "route"
    /\ route.pc = "auth"
    /\ route' = [route EXCEPT
                    !.calls = @ \o <<"rotateCredentials", "initializeAuth">>,
                    !.pc = IF ok THEN "respond" ELSE "done",
                    !.response = IF ok THEN None
                                 ELSE Some([status |-> 401,
                                            error |-> "Authentication failed: denied"])]
    /\ UNCHANGED <<mode, streamVars, sse, gc, conv, project, pdf, reasoning>>

\* What streamContent does before its first fetch, for either caller
PreludeWith(r, caller, e) ==
    [r EXCEPT !.calls = @ \o <<caller, "initializeAuth">>
                           \o (IF e = None THEN <<"fetch">> ELSE <<>>),
              !.conversionError = e,
              !.generationConfig =
                  IF e = None
                  THEN Some(StreamContentConfig(r.model, r.ENABLE_REAL_THINKING,
                                                r.includeReasoning, r.thinkingBudget))
                  ELSE None]

Prelude(r, caller) ==
    PreludeWith(r, caller, ConversionError(OtherMessages(r.body.messages)))

\* The response of the non-streaming branch once getCompletion returned or threw
Completed(r, thrown) ==
    [r EXCEPT !.pc = "done",
              !.response =
                  IF r.conversionError # None
                  THEN Some([status |-> 500, error |-> r.conversionError[1]])
                  ELSE IF thrown # None
                  THEN Some([status |-> 500, error |-> thrown[1]])
                  ELSE Some([status |-> 200, error |-> Nil])]

\* Lines 180-198 and 216-227: the stream is created and the response returned
StartStream ==
    /\ mode = "route"
    /\ route.pc = "respond"
    /\ route.body.stream
    /\ route' = [Prelude(route, "streamContent") EXCEPT
                    !.pc = "streaming",
                    !.response = Some([status |-> 200, error |-> Nil])]
    /\ UNCHANGED <<mode, streamVars, sse, gc, conv, project, pdf, reasoning>>

\* Lines 199-201: one chunk of the stream is written
WriteChunk(chunk) ==
    /\ mode = "route"
    /\ route.pc = "streaming"
    /\ route.conversionError = None
    /\ Len(route.written) < MaxEvents
    /\ route' = [route EXCEPT !.written = Append(@, chunk)]
    /\ UNCHANGED <<mode, streamVars, sse, gc, conv, project, pdf, reasoning>>

\* Lines 202-203: the stream ends
StreamCompletes ==
    /\ mode = "route"
    /\ route.pc = "streaming"
    /\ route.conversionError = None
    /\ route' = [route EXCEPT !.pc = "done", !.closed = TRUE]
    /\ UNCHANGED <<mode, streamVars, sse, gc, conv, project, pdf, reasoning>>

\* Lines 204-213: the stream throws; a conversion error is thrown before any other
StreamThrows(streamError) ==
    /\ mode = "route"
    /\ route.pc = "streaming"
    /\ LET errorMessage == IF route.conversionError = None THEN streamError
                           ELSE route.conversionError[1]
       IN route' = [route EXCEPT
                       !.pc = "done",
                       !.streamError = Some([message |-> errorMessage,
                                             writtenBefore |-> Len(route.written)]),
                       !.written = @ \o ErrorChunks(errorMessage),
                       !.closed = TRUE]
    /\ UNCHANGED <<mode, streamVars, sse, gc, conv, project, pdf, reasoning>>

\* Lines 228-274: the non-streaming branch; thrown is the error getCompletion
\* throws after the conversion of the messages, None when it returns
GetCompletion(thrown) ==
    /\ mode = "route"
    /\ route.pc = "respond"
    /\ ~route.body.stream
    /\ route' = Completed(Prelude(route, "getCompletion"), thrown)
    /\ UNCHANGED <<mode, streamVars, sse, gc, conv, project, pdf, reasoning>>

RouteNext ==
    \/ ParseRequest
    \/ Validate
    \/ \E ok \in BOOLEAN : Authenticate(ok)
    \/ StartStream
    \/ WriteChunk(Chunk("text", <<"a">>))
    \/ StreamCompletes
    \/ \E streamError \in StreamErrors : StreamThrows(streamError)
    \/ \E thrown \in {None} \cup {Some(e) : e \in StreamErrors} : GetCompletion(thrown)

SpecRoute == RouteInit /\ [][RouteNext]_vars

----------------------------------------------------------------------------
(* GeminiApiClient.discoverProjectId, called several times on one client *)

MaxCalls == 3       \* calls of discoverProjectId made on the client

ProjectIds == {"p1", "p2"}

\* What the awaited callEndpoint("loadCodeAssist") produces: it rejects, or it
\* resolves with a response that names a project or names none.
LoadResponses ==
    {[ok |-> FALSE, cloudaicompanionProject |-> None]}
        \cup {[ok |-> TRUE, cloudaicompanionProject |-> p] :
                p \in {None} \cup {Some(id) : id \in ProjectIds}}

DiscoveryError == "Could not discover project ID."

\* A call of discoverProjectId: where it stands, what it returned or threw, and
\* what its loadCodeAssist request settled with
CallReturned(v) == [pc |-> "returned", value |-> v, loadResponse |-> None]
CallThrown(message) == [pc |-> "thrown", value |-> message, loadResponse |-> None]

ProjectInit ==
    /\ mode = "project"
    /\ StreamIdle
    /\ sse = None
    /\ gc = None
    /\ route = None
    /\ conv = None
    /\ pdf = None
    /\ reasoning = None
    /\ \E env \in {None, Some("env-project")} :
          project = [GEMINI_PROJECT_ID |-> env,
                     projectId |-> None,
                     assigned |-> <<>>,
                     call |-> [c \in 1..MaxCalls |->
                                [pc |-> "idle", value |-> Nil, loadResponse |-> None]]]

\* A call starts and runs up to its first await: it returns the configured id or
\* the cached one, or it issues the loadCodeAssist request.
DiscoverProjectId(c) ==
    /\ mode = "project"
    /\ project.call[c].pc = "idle"
    /\ project' =
         [project EXCEPT !.call[c] =
            IF project.GEMINI_PROJECT_ID # None THEN CallReturned(project.GEMINI_PROJECT_ID[1])
            ELSE IF project.projectId # None THEN CallReturned(project.projectId[1])
            ELSE [pc |-> "await", value |-> Nil, loadResponse |-> None]]
    /\ UNCHANGED <<mode, streamVars, sse, gc, route, conv, pdf, reasoning>>

\* Variant: without a project in the response the initial project id is used
Discovered_Default(loadResponse) ==
    IF loadResponse.ok /\ loadResponse.cloudaicompanionProject # None
    THEN loadResponse.cloudaicompanionProject ELSE Some("default-project")

\* if (loadResponse.cloudaicompanionProject): the project discovered, None when
\* the call threw or the response names none
Discovered(loadResponse) ==
    IF loadResponse.ok /\ loadResponse.cloudaicompanionProject # None
    THEN loadResponse.cloudaicompanionProject ELSE None

\* The awaited request of call c settles and the call runs to its end
LoadCodeAssist(c, loadResponse) ==
    /\ mode = "project"
    /\ project.call[c].pc = "await"
    /\ project' =
         IF Discovered(loadResponse) # None
         THEN [project EXCEPT
                 !.projectId = Discovered(loadResponse),
                 !.assigned = Append(@, Discovered(loadResponse)[1]),
                 !.call[c] = [CallReturned(Discovered(loadResponse)[1])
                                EXCEPT !.loadResponse = Some(loadResponse)]]
         ELSE [project EXCEPT !.call[c] = [CallThrown(DiscoveryError)
                                            EXCEPT !.loadResponse = Some(loadResponse)]]
    /\ UNCHANGED <<mode, streamVars, sse, gc, route, conv, pdf, reasoning>>

ProjectNext ==
    \/ \E c \in 1..MaxCalls : DiscoverProjectId(c)
    \/ \E c \in 1..MaxCalls, loadResponse \in LoadResponses : LoadCodeAssist(c, loadResponse)

SpecProject == ProjectInit /\ [][ProjectNext]_vars

----------------------------------------------------------------------------
(* validatePdfBase64 applied to one string *)

MaxGroups == 6      \* base64 groups of the string handed to validatePdfBase64

PdfGroups == {"JVBE", "Ri0x", "aGVs", "!!!!"}

PdfStrings ==
    {prefix \o body :
        prefix \in {<<>>, <<"data:application/pdf;base64,">>},
        body \in UNION {[1..n -> PdfGroups] : n \in 0..MaxGroups}}

PdfInit ==
    /\ mode = "pdf"
    /\ StreamIdle
    /\ sse = None
    /\ gc = None
    /\ route = None
    /\ conv = None
    /\ project = None
    /\ reasoning = None
    /\ \E base64String \in PdfStrings :
          pdf = [base64String |-> base64String, returned |-> None]

ValidatePdfBase64 ==
    /\ mode = "pdf"
    /\ pdf.returned = None
    /\ pdf' = [pdf EXCEPT !.returned = Some(validatePdfBase64(pdf.base64String))]
    /\ UNCHANGED <<mode, streamVars, sse, gc, route, conv, project, reasoning>>

PdfNext == ValidatePdfBase64

SpecPdf == PdfInit /\ [][PdfNext]_vars

----------------------------------------------------------------------------
(* generateReasoningOutput: the chunking loop applied to one reasoning text *)

MaxText == 28       \* characters of the reasoning text handed to the chunking loop

\* A text of n letters with break characters c1, c2 at positions b1, b2 (0: none)
TextWith(n, b1, c1, b2, c2) ==
    [i \in 1..n |-> IF i = b1 THEN c1 ELSE IF i = b2 THEN c2 ELSE "a"]

ReasoningInputs ==
    {TextWith(n, b1, c1, b2, c2) :
        n \in 0..MaxText, b1 \in 0..MaxText, b2 \in 0..MaxText,
        c1 \in {" ", "."}, c2 \in {" ", ","}}

ChunkingInit ==
    /\ mode = "chunking"
    /\ StreamIdle
    /\ sse = None
    /\ gc = None
    /\ route = None
    /\ conv = None
    /\ project = None
    /\ pdf = None
    /\ \E fullReasoningText \in ReasoningInputs :
          reasoning = [fullReasoningText |-> fullReasoningText, chunks |-> None]

\* The while loop of generateReasoningOutput, run to its end
ChunkReasoning ==
    /\ mode = "chunking"
    /\ reasoning.chunks = None
    /\ reasoning' = [reasoning EXCEPT !.chunks = Some(SplitReasoning(reasoning.fullReasoningText))]
    /\ UNCHANGED <<mode, streamVars, sse, gc, route, conv, project, pdf>>

ChunkingNext == ChunkReasoning

SpecChunking == ChunkingInit /\ [][ChunkingNext]_vars

----------------------------------------------------------------------------
(* Reading the chunk sequence *)

IsMarker(c) == c.type = "thinking_content" /\ (c.data = OpenMarker \/ c.data = CloseMarker)
IsThinkingText(c) == c.type = "thinking_content" /\ ~IsMarker(c)
IsContent(c) == c.type \in {"text", "tool_code"}

Count(cs, c) ==
    Cardinality({i \in 1..Len(cs) : cs[i].type = c.type /\ cs[i].data = c.data})

OfType(cs, type) == SelectSeq(cs, LAMBDA c : c.type = type)

DataOf(cs) == [i \in 1..Len(cs) |-> cs[i].data]

Streaming == mode = "stream"

----------------------------------------------------------------------------
(* Retry and fallback controller *)

FailedWith(status) == pc = "failed" /\ error = "Stream request failed: " \o ToString(status)

\* C1: one streamContent call sends at most two streamGenerateContent requests;
\* a non-success status on an attempt made with isRetry = true ends the stream
\* with the error "Stream request failed: <status>" and no request follows it.
C1_AtMostTwoRequests ==
    Streaming =>
        /\ Len(requests) <= 2
        /\ \A i \in 1..Len(requests) :
              (requests[i].isRetry /\ ~ResponseOk(requests[i].status))
                  => (i = Len(requests) /\ FailedWith(requests[i].status))

\* A 401 answered to the retry that followed a model switch
C1_Witness ==
    /\ Streaming
    /\ Len(requests) = 2
    /\ requests[1].status = 429
    /\ requests[2].isRetry
    /\ requests[2].status = 401
    /\ FailedWith(401)

\* C2: after a 401 on the first attempt, clearTokenCache and then initializeAuth are
\* each called once, in that order, before the second request; the second request
\* is the first one again; a 401 on it is fatal.
C2_ReauthThenSameRequest ==
    (Streaming /\ Len(requests) >= 1 /\ requests[1].status = 401) =>
        LET since == SubSeq(calls, requests[1].callsBefore + 1, Len(calls))
        IN /\ \/ since = <<>>
              \/ since = <<"clearTokenCache">>
              \/ since = <<"clearTokenCache", "initializeAuth">>
           /\ Len(requests) >= 2 =>
                 /\ SubSeq(calls, requests[1].callsBefore + 1, requests[2].callsBefore)
                        = <<"clearTokenCache", "initializeAuth">>
                 /\ requests[2].request = requests[1].request
                 /\ requests[2].isRetry
                 /\ requests[2].status = 401 => (Len(requests) = 2 /\ FailedWith(401))

\* Two 401 in a row
C2_Witness ==
    /\ Streaming
    /\ Len(requests) = 2
    /\ requests[1].status = 401
    /\ requests[2].status = 401
    /\ calls = <<"initializeAuth", "clearTokenCache", "initializeAuth">>
    /\ pc = "failed"

SwitchedOn429 ==
    /\ Streaming
    /\ Len(requests) >= 1
    /\ requests[1].status \in {429, 503}
    /\ requests[1].isEnabled = Some(TRUE)

\* C3: a 429 or 503 on the first attempt for model X with switching enabled and a
\* fallback Y yields exactly one notification text chunk, then exactly one request,
\* made with model Y, whose chunks all follow the notification; a non-success
\* status on that request fails the stream and no third request is made.
C3_OneHopFallback ==
    SwitchedOn429 =>
        LET X == cfg.modelId
            Y == AUTO_SWITCH_MODEL_MAP[X]
            notification == Chunk("text", createSwitchNotification(X, Y))
            at == requests[1].chunksBefore + 1
        IN /\ Len(chunks) >= at
           /\ chunks[at] = notification
           /\ Count(chunks, notification) = 1
           /\ Len(requests) <= 2
           /\ pc # "fetch" => Len(requests) = 2
           /\ Len(requests) = 2 =>
                 /\ requests[2].request.model = Y
                 /\ requests[2].isRetry
                 /\ requests[2].chunksBefore = at
                 /\ requests[1].request.model = X
                 /\ ~ResponseOk(requests[2].status) =>
                        (FailedWith(requests[2].status) /\ Len(chunks) = at)

\* The fallback request succeeded and a chunk of its response was yielded
C3_Witness ==
    /\ SwitchedOn429
    /\ Len(requests) = 2
    /\ requests[2].status = 200
    /\ Len(chunks) > requests[2].chunksBefore
    /\ chunks[Len(chunks)].type = "text"

----------------------------------------------------------------------------
(* Thinking-state machine *)

ContentAt == {i \in 1..Len(chunks) : IsContent(chunks[i])}
ThinkingAt == {i \in 1..Len(chunks) : IsThinkingText(chunks[i])}

\* C4: when a thinking chunk is followed by a text or tool_code chunk, exactly one
\* closing marker lies between the last thinking chunk and the first text or
\* tool_code chunk that follows thinking.
C4_OneCloseBetweenThinkingAndContent ==
    LET after == {n \in ContentAt : \E t \in ThinkingAt : t < n}
    IN (Streaming /\ after # {}) =>
          LET first == Least(after)
              last == Greatest({t \in ThinkingAt : t < first})
          IN Cardinality({i \in (last + 1)..(first - 1) : chunks[i] = CloseChunk}) = 1

\* C5: after a fake-thinking preamble streamed as inline thinking_content, the first
\* text or tool_code chunk is immediately preceded by the closing marker.
C5_CloseBeforeFirstContent ==
    (Streaming /\ needsThinkingClose /\ ContentAt # {}) =>
        LET first == Least(ContentAt)
        IN first > 1 /\ chunks[first - 1] = CloseChunk

\* The thinking texts that the parts classified so far carry: the text of a
\* thought part, the first delimited segment of a text part
ThinkingTextOf(e) ==
    IF e.kind # "part" THEN <<>>
    ELSE IF e.part.thought /\ e.part.text # <<>> THEN <<e.part.text>>
    ELSE IF e.part.text # <<>> /\ ThinkMatch(e.part.text) # None
    THEN <<ThinkMatch(e.part.text)[1]>>
    ELSE <<>>

ThinkingTexts == Concat([i \in 1..Len(consumed) |-> ThinkingTextOf(consumed[i])])

IsThoughtPart(e) == e.kind = "part" /\ e.part.thought /\ e.part.text # <<>>

\* C9 (states): in inline-content mode the opening marker is yielded once, right
\* before the first thinking text, and the thinking texts are yielded in order as
\* thinking_content; otherwise they are yielded in order as real_thinking.
C9_State ==
    Streaming =>
        IF realThinkingAsContent
        THEN /\ DataOf(SelectSeq(chunks, IsThinkingText)) = ThinkingTexts
             /\ OfType(chunks, "real_thinking") = <<>>
             /\ Count(chunks, OpenChunk) = (IF ThinkingTexts = <<>> THEN 0 ELSE 1)
             /\ ThinkingAt # {} =>
                   (Least(ThinkingAt) > 1 /\ chunks[Least(ThinkingAt) - 1] = OpenChunk)
        ELSE /\ DataOf(OfType(chunks, "real_thinking")) = ThinkingTexts
             /\ Count(chunks, OpenChunk) = (IF needsThinkingClose THEN 1 ELSE 0)

\* C9 (steps): classifying a thought part yields, in inline-content mode, its text
\* as thinking_content, after the opening marker when none was yielded before;
\* otherwise exactly one real_thinking chunk carrying the text.
C9_Step ==
    (Streaming /\ Len(consumed') = Len(consumed) + 1
        /\ IsThoughtPart(consumed'[Len(consumed')])) =>
        LET text == consumed'[Len(consumed')].part.text
        IN chunks' = chunks \o
              (IF realThinkingAsContent
               THEN (IF Count(chunks, OpenChunk) = 0 THEN <<OpenChunk>> ELSE <<>>)
                        \o <<Chunk("thinking_content", text)>>
               ELSE <<Chunk("real_thinking", text)>>)

C9_ThoughtPartRouting == [](C9_State) /\ [][C9_Step]_vars

\* Two thought parts classified in inline-content mode
C9_Witness ==
    /\ Streaming
    /\ realThinkingAsContent
    /\ Len(consumed) = 2
    /\ IsThoughtPart(consumed[1])
    /\ IsThoughtPart(consumed[2])
    /\ Len(chunks) = 3

----------------------------------------------------------------------------
(* Non-streaming aggregator *)

LastOrNone(s) == IF s = <<>> THEN None ELSE Some(s[Len(s)])

\* C10: getCompletion returns the concatenation of the text chunks as content, the
\* last usage chunk as usage, one tool call per tool_code chunk in order (none:
\* undefined); other chunk types change nothing.
C10_CompletionAggregates ==
    (Streaming /\ pc = "done") =>
        LET r == result[1]
            calls_ == OfType(chunks, "tool_code")
        IN /\ r.content = Concat(DataOf(OfType(chunks, "text")))
           /\ r.usage = LastOrNone(DataOf(OfType(chunks, "usage")))
           /\ (calls_ = <<>>) = (r.tool_calls = None)
           /\ calls_ # <<>> =>
                 /\ Len(r.tool_calls[1]) = Len(calls_)
                 /\ \A i \in 1..Len(calls_) :
                       /\ r.tool_calls[1][i].type = "function"
                       /\ r.tool_calls[1][i].function.name = calls_[i].data.name
                       /\ r.tool_calls[1][i].function.arguments
                              = Stringify(calls_[i].data.args)
                       /\ \A j \in 1..Len(calls_) :
                             r.tool_calls[1][i].id = r.tool_calls[1][j].id => i = j

\* A completion over thinking, text, tool_code and two usage chunks
C10_Witness ==
    /\ Streaming
    /\ pc = "done"
    /\ Len(OfType(chunks, "usage")) = 2
    /\ ThinkingAt # {}
    /\ Len(OfType(chunks, "text")) >= 1
    /\ result[1].usage = Some([inputTokens |-> 5, outputTokens |-> 7])

----------------------------------------------------------------------------
(* SSE frame parser *)

Parsing == mode = "sse"

NoLocals == [buffer |-> <<>>, objectBuffer |-> <<>>, frames |-> <<>>, attempts |-> <<>>]

\* The frames yielded when the whole text arrives in one read
SingleRead(text) ==
    IF text = <<>> THEN ReadDone(NoLocals).frames
    ELSE ReadDone(ReadValue(NoLocals, text)).frames

\* C6: however the text is cut into reads, the frames yielded are those of the
\* text delivered in a single read.
C6_SplitInvariance ==
    (Parsing /\ sse.done) => sse.frames = SingleRead(sse.text)

EOL == <<"\n">>

\* One event delivered in three reads yields one frame
C6_Witness ==
    /\ Parsing
    /\ sse.done
    /\ sse.reads = 3
    /\ sse.text = DataPrefix \o <<"1">> \o EOL \o EOL
    /\ sse.frames = << <<"1">> >>

\* The events of a list of complete lines: the blank lines end them
IsBlank(line) == Trim(line) = <<>>

PayloadOf(lines) ==
    Concat([i \in 1..Len(lines) |->
                IF StartsWith(lines[i], DataPrefix)
                THEN SubSeq(lines[i], Len(DataPrefix) + 1, Len(lines[i])) ELSE <<>>])

\* Payload of the lines between the blank line before position b and position b
EventBefore(lines, b) ==
    LET blanks == {i \in 1..(b - 1) : IsBlank(lines[i])}
        from == IF blanks = {} THEN 1 ELSE Greatest(blanks) + 1
    IN PayloadOf(SubSeq(lines, from, b - 1))

ExpectedFrames(text, atEnd) ==
    LET split == SplitLines(text)
        lines == SubSeq(split, 1, Len(split) - 1)
        payloads == [b \in 1..(Len(lines) + 1) |->
                        IF b <= Len(lines)
                        THEN (IF IsBlank(lines[b]) THEN <<EventBefore(lines, b)>> ELSE <<>>)
                        ELSE (IF atEnd THEN <<EventBefore(lines, b)>> ELSE <<>>)]
    IN SelectSeq(Concat(payloads), JsonParses)

\* C7: an event whose payload is not valid JSON yields no frame and does not end
\* the parser; the payload is emptied at the blank line, and the frames yielded
\* are exactly the valid payloads of the events, each made of its own lines only.
C7_MalformedEventSkipped ==
    Parsing =>
        LET read == SubSeq(sse.text, 1, sse.pos)
            split == SplitLines(read)
        IN /\ sse.frames = ExpectedFrames(read, sse.done)
           /\ (Len(split) >= 2 /\ split[Len(split)] = <<>> /\ IsBlank(split[Len(split) - 1]))
                 => sse.objectBuffer = <<>>

\* A malformed event followed by a well-formed one, which is yielded alone
C7_Witness ==
    /\ Parsing
    /\ sse.done
    /\ sse.text = DataPrefix \o <<"!">> \o EOL \o EOL \o DataPrefix \o <<"1">> \o EOL
    /\ sse.frames = << <<"1">> >>

----------------------------------------------------------------------------
(* Generation config builder *)

Configuring == mode = "config"

\* C8: for a thinking model the thinkingBudget of the produced thinkingConfig is
\* never 0: it is -1 or positive.
C8_BudgetNeverZero ==
    (Configuring /\ gc.config # None /\ IsThinkingModel(gc.modelId)) =>
        /\ gc.config[1].thinkingConfig # None
        /\ LET b == gc.config[1].thinkingConfig[1].thinkingBudget
           IN b # 0 /\ (b = -1 \/ b > 0)

\* A requested budget of 0 with real thinking enabled and reasoning requested
C8_Witness ==
    /\ Configuring
    /\ gc.config # None
    /\ IsThinkingModel(gc.modelId)
    /\ gc.options.thinking_budget = Some(0)
    /\ gc.options.reasoning_effort = Nil
    /\ gc.isRealThinkingEnabled
    /\ gc.includeReasoning
    /\ gc.config[1].thinkingConfig[1].thinkingBudget = -1
    /\ gc.config[1].thinkingConfig[1].includeThoughts

----------------------------------------------------------------------------
(* Fatal statuses and the non-streaming fallback *)

NoSwitchPossible ==
    \/ requests[1].status \notin {429, 503}
    \/ cfg.modelId \notin DOMAIN AUTO_SWITCH_MODEL_MAP
    \/ requests[1].isEnabled = Some(FALSE)

IsNotification(c) ==
    /\ c.type = "text"
    /\ Len(c.data) >= 1
    /\ c.data[1] = "[auto-switch] "

\* C11: a 429 or 503 on the first attempt with switching disabled or no fallback
\* model defined, and any other non-success status except 401, yields no
\* notification chunk and no second request, and fails with the error naming
\* the status.
C11_NoFallbackIsFatal ==
    (/\ Streaming
     /\ Len(requests) >= 1
     /\ ~ResponseOk(requests[1].status)
     /\ requests[1].status # 401
     /\ NoSwitchPossible) =>
        /\ Len(requests) = 1
        /\ FailedWith(requests[1].status)
        /\ Len(chunks) = requests[1].chunksBefore
        /\ \A i \in 1..Len(chunks) : ~IsNotification(chunks[i])

\* A 503 for a model that has a fallback while switching is disabled
C11_Witness ==
    /\ Streaming
    /\ Len(requests) = 1
    /\ requests[1].status = 503
    /\ cfg.modelId \in DOMAIN AUTO_SWITCH_MODEL_MAP
    /\ requests[1].isEnabled = Some(FALSE)
    /\ FailedWith(503)

\* C12: when draining the stream throws, the fallback helper is called at most
\* once, only for an error recognised as a rate-limit error, with the original
\* model, messages and options; its result, if any, is what getCompletion
\* returns; otherwise the original error is rethrown and nothing is returned,
\* whatever content had been accumulated.
C12_CatchFallsBackOnce ==
    (Streaming /\ caught # None) =>
        LET c == caught[1]
        IN /\ pc = "failed"
           /\ Len(c.fallbackCalls) <= 1
           /\ Len(c.fallbackCalls) = 1 <=> c.isRateLimitError
           /\ \A i \in 1..Len(c.fallbackCalls) :
                 /\ c.fallbackCalls[i].modelId = cfg.modelId
                 /\ c.fallbackCalls[i].messages = cfg.userContent
                 /\ c.fallbackCalls[i].options.includeReasoning = cfg.includeReasoning
           /\ IF c.isRateLimitError /\ result # None
              THEN result = Some(FallbackCompletion) /\ c.rethrown = None
              ELSE result = None /\ c.rethrown = Some(error)

\* An error that is no rate-limit error is rethrown although text had been collected
C12_Witness ==
    /\ Streaming
    /\ caught # None
    /\ ~caught[1].isRateLimitError
    /\ content # <<>>
    /\ result = None
    /\ caught[1].rethrown = Some(error)

----------------------------------------------------------------------------
(* Message converter *)

Converting == mode = "convert"

Converted == Converting /\ conv.outcome # None

\* C15: a conversion that returns yields exactly as many backend parts as the
\* message has ContentParts, the i-th made from the i-th ContentPart.
C15_PartCountAndOrderPreserved ==
    (Converted /\ ~conv.outcome[1].threw) =>
        LET parts == conv.outcome[1].parts
        IN /\ Len(parts) = Len(conv.msg.content)
           /\ \A i \in 1..Len(parts) : parts[i].index = i

FailsValidation(part) ==
    /\ part.type \in {"image_url", "input_pdf"}
    /\ ~validateContent(part.type, part).isValid

\* C16: a message holding an image or PDF part that fails validation (a missing
\* URL and missing PDF data included) makes the conversion throw.
C16_InvalidMediaThrows ==
    (Converted /\ \E i \in 1..Len(conv.msg.content) : FailsValidation(conv.msg.content[i]))
        => conv.outcome[1].threw

----------------------------------------------------------------------------
(* Thinking configuration *)

\* What validating budget b must give for a thinking model
ExpectedBudget(b) == IF b = 0 \/ b < -1 THEN -1 ELSE b

\* C17: for a thinking model, includeThoughts is true and the budget is the
\* validated requested one exactly when real thinking is enabled and reasoning
\* is requested; otherwise includeThoughts is false and the budget is -1.  A
\* valid effort level in the options counts as the request: "none" asks for no
\* reasoning, the other levels ask for it, and the level gives the budget.
C17_ThoughtsOnlyWhenRequested ==
    (Configuring /\ gc.config # None /\ IsThinkingModel(gc.modelId)) =>
        LET effort == gc.options.reasoning_effort
            byEffort == effort \in {"none", "low", "medium", "high"}
            requested == IF byEffort THEN effort # "none" ELSE gc.includeReasoning
            budget == IF byEffort THEN mapEffortToThinkingBudget(effort, gc.modelId)
                      ELSE IF gc.options.thinking_budget = None THEN -1
                      ELSE gc.options.thinking_budget[1]
            thinkingConfig == gc.config[1].thinkingConfig[1]
        IN IF gc.isRealThinkingEnabled /\ requested
           THEN /\ thinkingConfig.includeThoughts
                /\ thinkingConfig.thinkingBudget = ExpectedBudget(budget)
           ELSE /\ ~thinkingConfig.includeThoughts
                /\ thinkingConfig.thinkingBudget = -1

\* Real thinking enabled, no reasoning requested, a positive budget requested
C17_Witness ==
    /\ Configuring
    /\ gc.config # None
    /\ IsThinkingModel(gc.modelId)
    /\ gc.isRealThinkingEnabled
    /\ ~gc.includeReasoning
    /\ gc.options.reasoning_effort = Nil
    /\ gc.options.thinking_budget # None
    /\ gc.options.thinking_budget[1] > 0
    /\ ~gc.config[1].thinkingConfig[1].includeThoughts

\* C20: validating a validated budget changes nothing, for every model; for a
\* thinking model of any family 0 and every budget below -1 give -1, and -1 and
\* every positive budget are returned unchanged.
C20_ValidateIdempotent ==
    (Configuring /\ gc.validated # None) =>
        LET b == gc.options.thinking_budget[1]
            v == gc.validated[1]
        IN /\ v.twice = v.once
           /\ IsThinkingModel(gc.modelId) =>
                 /\ (b = 0 \/ b < -1) => v.once = -1
                 /\ (b = -1 \/ b > 0) => v.once = b

\* A budget below -1 validated for a flash model
C20_Witness ==
    /\ Configuring
    /\ gc.validated # None
    /\ IsFlashModel(gc.modelId)
    /\ IsThinkingModel(gc.modelId)
    /\ gc.options.thinking_budget[1] < -1
    /\ gc.validated[1].once = -1

----------------------------------------------------------------------------
(* Chat-completions route *)

Routing == mode = "route"

RequestedModel == IF route.body.model = Nil THEN DEFAULT_MODEL ELSE route.body.model

\* The request fails one of the validations: no message, an unknown model, a
\* media part the model does not support, a malformed image or PDF part
RequestFailsValidation ==
    LET parts == ListContents(route.body.messages)
    IN \/ route.body.messages = <<>>
       \/ RequestedModel \notin RegisteredModels
       \/ \E i \in 1..Len(parts) :
             \/ /\ parts[i].type \in {"image_url", "input_audio", "input_video", "input_pdf"}
                /\ ~isMediaTypeSupported(RequestedModel, parts[i].type)
             \/ FailsValidation(parts[i])

\* C13: a request that fails validation is answered with an error before any
\* call to the authentication manager or the backend client is made for it;
\* nothing is written to a stream and no call is ever made afterwards.
C13_InvalidRequestRejectedEarly ==
    (Routing /\ RequestFailsValidation) =>
        /\ route.calls = <<>>
        /\ route.written = <<>>
        /\ route.pc \in {"parse", "validate", "done"}
        /\ route.pc = "done" =>
              /\ route.response # None
              /\ route.response[1].status = 400
              /\ route.response[1].error # Nil

\* A PDF part that is no PDF, sent to a registered model, answered with 400
C13_Witness ==
    /\ Routing
    /\ route.pc = "done"
    /\ RequestedModel \in RegisteredModels
    /\ \E i \in 1..Len(ListContents(route.body.messages)) :
          /\ ListContents(route.body.messages)[i].type = "input_pdf"
          /\ ListContents(route.body.messages)[i].input_pdf # None
          /\ ListContents(route.body.messages)[i].input_pdf[1].data = TextBase64
    /\ route.response # None
    /\ route.response[1].status = 400
    /\ route.calls = <<>>

\* C14: when the chunk stream throws, after any number of written chunks, one
\* text chunk "Error: <message>" is written last and the output is closed; the
\* output is closed only after the stream completed or after that error chunk.
C14_ErrorChunkThenClose ==
    Routing =>
        /\ route.streamError # None =>
              LET failure == route.streamError[1]
              IN /\ route.closed
                 /\ Len(route.written) = failure.writtenBefore + 1
                 /\ route.written[Len(route.written)]
                        = Chunk("text", <<"Error: ", failure.message>>)
                 /\ \A i \in 1..failure.writtenBefore :
                        route.written[i] # Chunk("text", <<"Error: ", failure.message>>)
        /\ route.closed =>
              /\ route.pc = "done"
              /\ \/ route.streamError = None
                 \/ route.written[Len(route.written)].data[1] = "Error: "

\* The stream throws after a chunk was written
C14_Witness ==
    /\ Routing
    /\ route.streamError # None
    /\ route.streamError[1].writtenBefore >= 1
    /\ route.closed

\* C18: reasoning_effort "none" gives includeReasoning = false, and for a
\* thinking model a generation config with thinkingBudget -1 and
\* includeThoughts false, whatever thinking_budget and ENABLE_REAL_THINKING are.
C18_EffortNoneDisablesReasoning ==
    (Routing /\ route.body.reasoning_effort = "none" /\ route.pc # "parse") =>
        /\ ~route.includeReasoning
        /\ (route.generationConfig # None /\ IsThinkingModel(route.model)) =>
              route.generationConfig[1].thinkingConfig
                  = Some([thinkingBudget |-> -1, includeThoughts |-> FALSE])

\* Effort "none" with real thinking enabled and an explicit budget, config built
C18_Witness ==
    /\ Routing
    /\ route.body.reasoning_effort = "none"
    /\ route.ENABLE_REAL_THINKING
    /\ route.body.thinking_budget = Some(2048)
    /\ route.generationConfig # None
    /\ IsThinkingModel(route.model)

EffortTable(effort, flash) ==
    CASE effort = "low" -> 1024
      [] effort = "medium" -> IF flash THEN 12288 ELSE 16384
      [] effort = "high" -> IF flash THEN 24576 ELSE 32768

\* C19: an effort of low, medium or high gives includeReasoning = true and the
\* budget of the table for the model's family, whatever thinking_budget the
\* request carries; validation leaves that budget unchanged, so with real
\* thinking enabled the generation config carries it ("high" on a non-flash
\* thinking model: 32768).
C19_EffortBudgetTable ==
    (Routing /\ route.body.reasoning_effort \in {"low", "medium", "high"}
             /\ route.pc # "parse") =>
        LET expected == EffortTable(route.body.reasoning_effort, IsFlashModel(route.model))
        IN /\ route.includeReasoning
           /\ route.thinkingBudget = expected
           /\ validateThinkingBudget(route.model, route.thinkingBudget) = expected
           /\ (route.body.reasoning_effort = "high" /\ route.model = "gemini-2.5-pro")
                 => route.thinkingBudget = 32768
           /\ (route.generationConfig # None /\ route.ENABLE_REAL_THINKING) =>
                 route.generationConfig[1].thinkingConfig
                     = Some([thinkingBudget |-> expected, includeThoughts |-> TRUE])

\* Effort "high" on gemini-2.5-pro with an explicit budget and real thinking on
C19_Witness ==
    /\ Routing
    /\ route.body.reasoning_effort = "high"
    /\ route.model = "gemini-2.5-pro"
    /\ route.body.thinking_budget = Some(2048)
    /\ route.ENABLE_REAL_THINKING
    /\ route.generationConfig # None
    /\ route.generationConfig[1].thinkingConfig[1].thinkingBudget = 32768

----------------------------------------------------------------------------
(* C21: across any interleaving of discoverProjectId calls on one client with *)
(* no GEMINI_PROJECT_ID configured, the cached project id is assigned at most *)
(* once, and once it is non-null it never changes its value.                  *)

C21_ProjectIdWriteOnce ==
    (mode = "project" /\ project.GEMINI_PROJECT_ID = None)
        => /\ Len(project.assigned) <= 1
           /\ \A i, j \in 1..Len(project.assigned) : project.assigned[i] = project.assigned[j]

----------------------------------------------------------------------------
(* C22: a response with a success status but no body makes performStreamRequest *)
(* fail with an error, on the first attempt and on a retry alike: no chunk      *)
(* derived from the backend is emitted and no further request is made.          *)

\* response.body is looked at for responses with a success status only
BodilessAnswer(i) == ResponseOk(requests[i].status) /\ requests[i].hasBody = Some(FALSE)

C22_NoBodyIsFatal ==
    mode = "stream" =>
        \A i \in 1..Len(requests) :
            BodilessAnswer(i) =>
                /\ i = Len(requests)
                /\ pc = "failed"
                /\ error = "Response has no body"
                /\ consumed = <<>>
                /\ Len(chunks) = requests[i].chunksBefore

C22_Witness ==
    /\ Len(requests) = 2
    /\ requests[2].isRetry
    /\ BodilessAnswer(2)
    /\ error = "Response has no body"

----------------------------------------------------------------------------
(* C23: validatePdfBase64(x) is true exactly when x, after removal of an      *)
(* optional 'data:application/pdf;base64,' prefix, is a decodable base64      *)
(* string whose decoded bytes begin with '%PDF-'; a string that cannot be     *)
(* decoded as base64 is rejected.                                             *)

StripPdfPrefix(x) ==
    IF x # <<>> /\ Head(x) = "data:application/pdf;base64," THEN Tail(x) ELSE x

IsBase64(x) == \A i \in 1..Len(x) : x[i] \in DOMAIN Base64Groups

DecodesToPdf(x) ==
    /\ IsBase64(x)
    /\ StartsWith(Concat([i \in 1..Len(x) |-> Base64Groups[x[i]]]), PdfSignature)

C23_PdfSignatureOfDecodableString ==
    (mode = "pdf" /\ pdf.returned # None)
        => (pdf.returned[1] = DecodesToPdf(StripPdfPrefix(pdf.base64String)))

----------------------------------------------------------------------------
(* Parse attempts of the SSE frame parser, read off the text itself *)

\* The newline-terminated lines among the first n characters of the text
TerminatedLines(text, n) ==
    LET lines == SplitLines(SubSeq(text, 1, n)) IN SubSeq(lines, 1, Len(lines) - 1)

\* One attempt per blank line that closes a non-empty payload, and one at the
\* end of the stream when the payload pending there is non-empty
ExpectedAttempts(lines, atEnd) ==
    LET entries == [b \in 1..(Len(lines) + 1) |->
                      IF EventBefore(lines, b) = <<>> THEN <<>>
                      ELSE IF b <= Len(lines)
                      THEN (IF IsBlank(lines[b])
                            THEN <<[payload |-> EventBefore(lines, b), at |-> "blank"]>>
                            ELSE <<>>)
                      ELSE (IF atEnd
                            THEN <<[payload |-> EventBefore(lines, b), at |-> "end"]>>
                            ELSE <<>>)]
    IN Concat(entries)

\* C24: parseSSEStream attempts a parse only when it sees a blank line while the
\* accumulated payload is non-empty, or at the end of the stream while it is
\* non-empty; the payload parsed is exactly the in-order concatenation of the
\* prefix-stripped 'data: ' lines received since the previous blank line, and
\* lines that do not start with 'data: ' contribute nothing.
C24_ParseAttempts ==
    Parsing =>
        LET lines == TerminatedLines(sse.text, sse.pos)
        IN sse.attempts = ExpectedAttempts(lines, sse.done)

C24_Witness ==
    /\ Parsing
    /\ sse.done
    /\ sse.text = DataPrefix \o <<"1", "\n", "x", "\n">> \o DataPrefix \o <<"!", "\n">>
    /\ sse.attempts = <<[payload |-> <<"1", "!">>, at |-> "end"]>>

\* The lines of the whole text, the unterminated last one included when non-empty
ReceivedLines(text) ==
    LET lines == SplitLines(text)
    IN IF lines[Len(lines)] = <<>> THEN SubSeq(lines, 1, Len(lines) - 1) ELSE lines

\* C25: when the stream ends without a trailing blank line the pending event is
\* flushed in full: every 'data: ' line received before the end, including a
\* final line not terminated by a newline, is part of the payload parsed at close.
C25_FlushIncludesUnterminatedLine ==
    (Parsing /\ sse.done) =>
        LET lines == ReceivedLines(sse.text)
            pending == EventBefore(lines, Len(lines) + 1)
        IN pending # <<>> =>
              /\ sse.attempts # <<>>
              /\ sse.attempts[Len(sse.attempts)] = [payload |-> pending, at |-> "end"]

----------------------------------------------------------------------------
(* Order of the chunks derived from one backend response *)

IsSubText(t, text) ==
    \E i \in 1..(Len(text) + 1), j \in 0..Len(text) : SubSeq(text, i, j) = t

\* Chunk c carries data of the part or of the usageMetadata of event ev
DerivedFrom(c, ev) ==
    IF ev.kind = "part"
    THEN \/ /\ c.type \in {"thinking_content", "real_thinking"}
            /\ \/ ev.part.thought /\ c.data = ev.part.text
               \/ ~ev.part.thought /\ ThinkMatch(ev.part.text) = Some(c.data)
         \/ /\ c.type = "text"
            /\ ~ev.part.thought
            /\ c.data # <<>>
            /\ IsSubText(c.data, ev.part.text)
         \/ /\ c.type = "tool_code"
            /\ ev.part.functionCall = Some([name |-> c.data.name, args |-> c.data.args])
    ELSE /\ c.type = "usage"
         /\ ev.usageMetadata # None

\* The chunks yielded while event k was handled
ChunksOfEvent(k) ==
    LET to == IF k < Len(consumed) THEN consumed[k + 1].emittedBefore ELSE Len(chunks)
    IN (consumed[k].emittedBefore + 1)..to

\* C26: the chunks derived from a backend response are emitted in frame order
\* and, within a frame, in the order of its parts; the only chunks inserted
\* among them are the opening and closing thinking markers.
C26_ChunksInBackendOrder ==
    (Streaming /\ consumed # <<>>) =>
        /\ consumed[1].emittedBefore = requests[Len(requests)].chunksBefore
        /\ \A k \in 1..Len(consumed) :
              /\ consumed[k].emittedBefore <= Len(chunks)
              /\ k < Len(consumed) => consumed[k].emittedBefore <= consumed[k + 1].emittedBefore
              /\ \A i \in ChunksOfEvent(k) :
                    IsMarker(chunks[i]) \/ DerivedFrom(chunks[i], consumed[k])

C26_Witness ==
    /\ Streaming
    /\ realThinkingAsContent
    /\ Len(consumed) = 2
    /\ consumed[1].kind = "part" /\ consumed[1].part.thought
    /\ consumed[2].kind = "part" /\ consumed[2].part.text = <<"a">>
    /\ LET n == requests[Len(requests)].chunksBefore
       IN SubSeq(chunks, n + 1, Len(chunks))
            = <<OpenChunk, Chunk("thinking_content", <<"t">>), CloseChunk,
                Chunk("text", <<"a">>)>>

----------------------------------------------------------------------------
(* Usage reporting *)

\* The step handles the end of a frame
EndsFrame ==
    /\ Streaming
    /\ Len(consumed') = Len(consumed) + 1
    /\ consumed'[Len(consumed')].kind = "frameEnd"

ReportedOrZero(count) == IF count = None THEN 0 ELSE count[1]

\* C27: every parsed frame that carries usageMetadata yields exactly one usage
\* chunk, after all part-level chunks of that frame, with inputTokens and
\* outputTokens equal to the reported counts or 0 where a count is missing; it
\* is emitted whether or not the frame has candidates or parts, and emitting it
\* never emits or consumes the pending closing marker.
C27_UsageChunkPerFrame ==
    [][EndsFrame =>
        LET usageMetadata == consumed'[Len(consumed')].usageMetadata
        IN IF usageMetadata = None
           THEN chunks' = chunks
           ELSE /\ chunks' = Append(chunks,
                      [type |-> "usage",
                       data |-> [inputTokens |->
                                    ReportedOrZero(usageMetadata[1].promptTokenCount),
                                 outputTokens |->
                                    ReportedOrZero(usageMetadata[1].candidatesTokenCount)]])
                /\ hasClosedThinking' = hasClosedThinking
                /\ hasStartedThinking' = hasStartedThinking]_vars

\* A frame without parts reports usage while the closing marker is pending
C27_Witness ==
    /\ Streaming
    /\ needsThinkingClose
    /\ ~hasClosedThinking
    /\ Len(consumed) = 1
    /\ consumed[1].kind = "frameEnd"
    /\ consumed[1].usageMetadata # None
    /\ chunks[Len(chunks)] = [type |-> "usage", data |-> [inputTokens |-> 3, outputTokens |-> 0]]
    /\ \A i \in 1..Len(chunks) : chunks[i] # CloseChunk

----------------------------------------------------------------------------
(* Text parts that carry <think> delimiters *)

\* The step classifies one part
HandlesPart ==
    /\ Streaming
    /\ Len(consumed') = Len(consumed) + 1
    /\ consumed'[Len(consumed')].kind = "part"

HandledPart == consumed'[Len(consumed')].part

\* The chunks the step yields
Emitted == SubSeq(chunks', Len(chunks) + 1, Len(chunks'))

FirstOpen(text) == Least({i \in 1..Len(text) : text[i] = "<think>"})
FirstClose(text) == Least({j \in (FirstOpen(text) + 1)..Len(text) : text[j] = "</think>"})

HasThinkPair(text) ==
    \E i, j \in 1..Len(text) : i < j /\ text[i] = "<think>" /\ text[j] = "</think>"

Between(text) == SubSeq(text, FirstOpen(text) + 1, FirstClose(text) - 1)

Outside(text) ==
    Trim(SubSeq(text, 1, FirstOpen(text) - 1) \o SubSeq(text, FirstClose(text) + 1, Len(text)))

\* An opening marker has been yielded and no closing marker after it
MarkerOpen(cs) ==
    \E i \in 1..Len(cs) :
        /\ cs[i] = OpenChunk
        /\ \A j \in (i + 1)..Len(cs) : cs[j] # CloseChunk

\* The chunks of the text between the delimiters, routed as a thought part is
DelimitedThinking(text) ==
    IF realThinkingAsContent
    THEN (IF hasStartedThinking THEN <<>> ELSE <<OpenChunk>>)
            \o <<Chunk("thinking_content", Between(text))>>
    ELSE <<Chunk("real_thinking", Between(text))>>

\* C28: for a text part that contains a complete <think>...</think> pair, the
\* text between the delimiters is emitted as a thinking chunk routed as a real
\* thought part is (thinking_content after the once-only opening marker in
\* inline mode, real_thinking otherwise), and the text outside the pair, when
\* non-empty after trimming, is emitted as one text chunk, preceded by the
\* closing marker if the thinking marker is open and not yet closed.
C28_DelimitedThinkingRouted ==
    [][(HandlesPart /\ ~HandledPart.thought /\ HasThinkPair(HandledPart.text)) =>
        LET text == HandledPart.text
            thinking == DelimitedThinking(text)
        IN /\ Len(chunks') >= Len(chunks)
           /\ SubSeq(chunks', 1, Len(chunks)) = chunks
           /\ Emitted = thinking
                \o (IF Outside(text) = <<>> THEN <<>>
                    ELSE (IF MarkerOpen(chunks \o thinking) THEN <<CloseChunk>> ELSE <<>>)
                            \o <<Chunk("text", Outside(text))>>)]_vars

\* The same, for responses that follow no fake-thinking preamble in inline mode
C28_WithoutPreamble ==
    [][(HandlesPart /\ ~HandledPart.thought /\ HasThinkPair(HandledPart.text)
            /\ ~needsThinkingClose) =>
        LET text == HandledPart.text
            thinking == DelimitedThinking(text)
        IN Emitted = thinking
                \o (IF Outside(text) = <<>> THEN <<>>
                    ELSE (IF MarkerOpen(chunks \o thinking) THEN <<CloseChunk>> ELSE <<>>)
                            \o <<Chunk("text", Outside(text))>>)]_vars


\* A text part that opens <think> and never closes it
HasUnclosedThink(part) ==
    /\ ~part.thought
    /\ Includes(part.text, "<think>")
    /\ ~HasThinkPair(part.text)

\* C29: a text part that contains '<think>' but no '</think>' is not treated as
\* delimited thinking: it produces exactly the chunks the ordinary-text rule
\* produces for the same part in the same state, the closing marker first when
\* a close is pending, then one text chunk carrying the text.
C29_UnclosedThinkIsOrdinaryText ==
    [][(HandlesPart /\ HasUnclosedThink(HandledPart)) =>
        Emitted = (IF MarkerOpen(chunks) THEN <<CloseChunk>> ELSE <<>>)
                    \o <<Chunk("text", HandledPart.text)>>]_vars

\* The same, for responses in which no close is pending
C29_NoClosePending ==
    [][(HandlesPart /\ HasUnclosedThink(HandledPart) /\ ~MarkerOpen(chunks)) =>
        Emitted = <<Chunk("text", HandledPart.text)>>]_vars

\* The same up to surrounding whitespace of the text, no close pending
C29_TrimmedNoClosePending ==
    [][(HandlesPart /\ HasUnclosedThink(HandledPart) /\ ~MarkerOpen(chunks)) =>
        Emitted = <<Chunk("text", Trim(HandledPart.text))>>]_vars

----------------------------------------------------------------------------
(* The fake-thinking preamble *)

\* streamContent has passed the point where the preamble is produced
PreambleProduced ==
    /\ Streaming
    /\ streamRequest # None
    /\ IsThinkingModel(cfg.modelId)
    /\ cfg.ENABLE_FAKE_THINKING
    /\ ~cfg.includeReasoning

\* The chunks already yielded when the first request was sent
BeforeFirstRequest == IF requests = <<>> THEN Len(chunks) ELSE requests[1].chunksBefore

PreambleText(c) == IF c.type = "reasoning" THEN c.data.reasoning ELSE c.data

\* C30: when the fake-thinking preamble is produced, all of its chunks are
\* emitted before the first streamGenerateContent request is sent, hence before
\* every backend-derived chunk and before the model-switch notification; in
\* inline-content mode the preamble starts with the opening marker and contains
\* no closing marker.
C30_PreambleBeforeFirstRequest ==
    PreambleProduced =>
        LET n == BeforeFirstRequest
            inline == cfg.STREAM_THINKING_AS_CONTENT
            first == IF inline THEN 2 ELSE 1
        IN /\ n >= first
           /\ \A i \in 1..n :
                 chunks[i].type = (IF inline THEN "thinking_content" ELSE "reasoning")
           /\ Concat([i \in 1..(n - first + 1) |-> PreambleText(chunks[i + first - 1])])
                 = Concat(ReasoningTexts(cfg.userContent))
           /\ \A i \in (n + 1)..Len(chunks) : chunks[i].type # "reasoning"
           /\ \A k \in 1..Len(consumed) : consumed[k].emittedBefore >= n
           /\ \A i \in 1..Len(chunks) : IsNotification(chunks[i]) => i > n
           /\ inline => /\ chunks[1] = OpenChunk
                        /\ \A i \in 1..n : chunks[i] # CloseChunk

\* An inline preamble, then the notification of a model switch, then a part
C30_Witness ==
    /\ PreambleProduced
    /\ cfg.STREAM_THINKING_AS_CONTENT
    /\ Len(requests) = 2
    /\ consumed # <<>>
    /\ IsNotification(chunks[BeforeFirstRequest + 1])
    /\ Len(chunks) > BeforeFirstRequest + 1

----------------------------------------------------------------------------
(* Chunking of the reasoning text *)

BreakCharacters == {" ", "\n", ".", ",", "!", "?", ";", ":"}

\* The characters the loop looks ahead of the target size for a break
LookAhead == 10

Chunked == mode = "chunking" /\ reasoning.chunks # None

\* The pieces are non-empty and their concatenation is the text
PiecesCoverText ==
    LET pieces == reasoning.chunks[1]
    IN /\ \A k \in 1..Len(pieces) : pieces[k] # <<>>
       /\ Concat(pieces) = reasoning.fullReasoningText

\* Piece p is of the target size, or it ends just after a break character and is
\* at most 30% shorter than the target size and at most longest characters long
PieceSized(p, longest) ==
    \/ Len(p) = THINKING_CONTENT_CHUNK_SIZE
    \/ /\ p[Len(p)] \in BreakCharacters
       /\ 10 * Len(p) >= 7 * THINKING_CONTENT_CHUNK_SIZE
       /\ Len(p) <= longest

\* C31, as stated: the chunking loop terminates and splits the text into
\* non-empty pieces whose in-order concatenation equals the text; every piece
\* except the last is of the target size or ends just after a break character,
\* and is never more than 30% shorter than the target size nor longer than it.
C31_PiecesWithinTargetSize ==
    Chunked =>
        /\ PiecesCoverText
        /\ \A k \in 1..(Len(reasoning.chunks[1]) - 1) :
              PieceSized(reasoning.chunks[1][k], THINKING_CONTENT_CHUNK_SIZE)

\* C31, amended: the same, a piece that ends just after a break character being
\* at most LookAhead characters longer than the target size.
C31_PiecesNearTargetSize ==
    Chunked =>
        /\ PiecesCoverText
        /\ \A k \in 1..(Len(reasoning.chunks[1]) - 1) :
              PieceSized(reasoning.chunks[1][k], THINKING_CONTENT_CHUNK_SIZE + LookAhead)

\* A text cut after a break character that lies beyond the target size
C31_Witness ==
    /\ Chunked
    /\ Len(reasoning.chunks[1]) = 2
    /\ Len(reasoning.chunks[1][1]) = THINKING_CONTENT_CHUNK_SIZE + LookAhead
    /\ reasoning.chunks[1][1][THINKING_CONTENT_CHUNK_SIZE + LookAhead] = " "
    /\ Len(reasoning.chunks[1][2]) = 3

----------------------------------------------------------------------------
(* Thinking modes of one streamContent call *)

\* Chunks were yielded before the first request: the fake-thinking preamble
PreambleEmitted == BeforeFirstRequest > 0

IncludeThoughtsOf(request) ==
    /\ request.request.generationConfig.thinkingConfig # None
    /\ request.request.generationConfig.thinkingConfig[1].includeThoughts

\* C32: in every performStreamRequest call made by streamContent,
\* needsThinkingClose and realThinkingAsContent are never both true: the
\* fake-thinking preamble is emitted only for a thinking model with fake thinking
\* enabled and includeReasoning = false, so it never occurs in a request whose
\* generation config has includeThoughts = true.
C32_FakeAndRealThinkingExclusive ==
    (Streaming /\ streamRequest # None) =>
        /\ ~(needsThinkingClose /\ realThinkingAsContent)
        /\ needsThinkingClose => PreambleEmitted
        /\ PreambleEmitted =>
              /\ IsThinkingModel(cfg.modelId)
              /\ cfg.ENABLE_FAKE_THINKING
              /\ ~cfg.includeReasoning
              /\ ~IncludeThoughtsOf(streamRequest[1])
              /\ \A i \in 1..Len(requests) : ~IncludeThoughtsOf(requests[i].request)

\* A preamble with real thinking enabled in the environment, and a request sent
C32_Witness ==
    /\ Streaming
    /\ PreambleEmitted
    /\ needsThinkingClose
    /\ cfg.ENABLE_REAL_THINKING
    /\ Len(requests) = 2

----------------------------------------------------------------------------
(* The thinking markers in the chunk sequence *)

\* C33: in the chunk sequence of one streamContent call, over any sequence of
\* backend statuses and frames, the opening marker occurs at most once, the
\* closing marker occurs at most once, and a closing marker is never emitted
\* unless an opening marker was emitted earlier in the same sequence.
C33_MarkersAtMostOnce ==
    Streaming =>
        /\ Count(chunks, OpenChunk) <= 1
        /\ Count(chunks, CloseChunk) <= 1
        /\ \A i \in 1..Len(chunks) :
              IsMarker(chunks[i]) /\ chunks[i].data = CloseMarker
                  => \E j \in 1..(i - 1) :
                        IsMarker(chunks[j]) /\ chunks[j].data = OpenMarker

\* The preamble's marker closed before the first text, and more text after it
C33_Witness ==
    /\ Streaming
    /\ needsThinkingClose
    /\ Len(consumed) = 2
    /\ Count(chunks, OpenChunk) = 1
    /\ Count(chunks, CloseChunk) = 1
    /\ chunks[Len(chunks)].type = "text"
    /\ chunks[Len(chunks) - 1].type = "text"


\* C34: once the closing marker has been emitted in a response, no further
\* thinking_content chunk is emitted in that response: a thought part or
\* delimited segment that arrives after text or a tool call never produces
\* thinking_content outside an open <thinking> section.
C34_NoThinkingContentAfterClose ==
    Streaming =>
        \A i \in 1..Len(chunks) :
            IsMarker(chunks[i]) /\ chunks[i].data = CloseMarker
                => \A j \in (i + 1)..Len(chunks) : chunks[j].type # "thinking_content"

\* The same, for responses whose thinking all precedes the first text or tool call
ThinkingPrecedesContent ==
    \A k \in 1..Len(consumed) :
        (consumed[k].kind = "part"
            /\ (consumed[k].part.thought \/ Includes(consumed[k].part.text, "<think>")))
          => \A m \in 1..(k - 1) :
                consumed[m].kind = "part"
                    => (consumed[m].part.thought /\ consumed[m].part.functionCall = None
                            /\ consumed[m].part.text # <<>>)

C34_ThinkingFirst ==
    (Streaming /\ ThinkingPrecedesContent) => C34_NoThinkingContentAfterClose

----------------------------------------------------------------------------
(* Attempts and the chunks they yield *)

\* The chunks yielded between request i and the request after it
ChunksOfAttempt(i) == (requests[i].chunksBefore + 1)..requests[i + 1].chunksBefore

\* C35: an attempt that ends in a retry or a fallback has emitted no
\* backend-derived chunk: the decision to retry is taken only on the response
\* status, before any frame is read, so all backend-derived chunks of one
\* streamContent call come from at most one response and no chunk is emitted
\* twice.
C35_RetriedAttemptYieldsNothing ==
    Streaming =>
        /\ \A i \in 1..(Len(requests) - 1) :
              /\ ~ResponseOk(requests[i].status)
              /\ \A j \in ChunksOfAttempt(i) : IsNotification(chunks[j])
        /\ consumed # <<>> =>
              /\ ResponseOk(requests[Len(requests)].status)
              /\ \A k \in 1..Len(consumed) :
                    consumed[k].emittedBefore >= requests[Len(requests)].chunksBefore

\* A retry after 401, then a response whose frames are read
C35_Witness ==
    /\ Streaming
    /\ Len(requests) = 2
    /\ requests[1].status = 401
    /\ Len(consumed) = 2
    /\ Len(chunks) > requests[2].chunksBefore + 1

----------------------------------------------------------------------------
(* What the second attempt is called with *)

SameArguments(a, b) ==
    /\ a.needsThinkingClose = b.needsThinkingClose
    /\ a.realThinkingAsContent = b.realThinkingAsContent
    /\ a.originalModel = b.originalModel

\* C36: the fallback request differs from the original request only in its
\* model field: project, contents, generationConfig, tools, toolConfig and
\* safetySettings are unchanged, the original request object is not modified,
\* and needsThinkingClose, realThinkingAsContent and originalModel are passed
\* unchanged to the retry; the 401 retry passes the request and these arguments
\* unchanged.
C36_RetryKeepsRequestAndArguments ==
    (Streaming /\ Len(requests) >= 2) =>
        LET first == requests[1]
            second == requests[2]
        IN /\ SameArguments(first, second)
           /\ second.isRetry
           /\ second.request.project = first.request.project
           /\ second.request.request = first.request.request
           /\ DOMAIN second.request = DOMAIN first.request
           /\ first.request.model = cfg.modelId
           /\ IF first.status = 401
              THEN second.request = first.request
              ELSE second.request = [first.request EXCEPT !.model = second.request.model]

\* A fallback request for a thinking model, sent after the preamble
C36_Witness ==
    /\ Streaming
    /\ Len(requests) = 2
    /\ requests[1].status = 503
    /\ requests[2].request.model # requests[1].request.model
    /\ requests[2].needsThinkingClose
    /\ requests[2].request.request.generationConfig.thinkingConfig # None

----------------------------------------------------------------------------
(* Failure and configuration of project discovery *)

Discovering == mode = "project"

\* The step in which call c of discoverProjectId throws
Throws(c) == project.call[c].pc = "await" /\ project'.call[c].pc = "thrown"

\* The step in which call c starts
Starts(c) == project.call[c].pc = "idle" /\ project'.call[c].pc # "idle"

\* The loadCodeAssist request of call c threw or its response names no project
DiscoveryFailed(c) ==
    /\ project.call[c].loadResponse # None
    /\ \/ ~project.call[c].loadResponse[1].ok
       \/ project.call[c].loadResponse[1].cloudaicompanionProject = None

C37_State ==
    Discovering =>
        /\ project.assigned = <<>> => project.projectId = None
        /\ \A c \in 1..MaxCalls :
              DiscoveryFailed(c) => project.call[c] = [pc |-> "thrown",
                                                      value |-> DiscoveryError,
                                                      loadResponse |-> project.call[c].loadResponse]
        /\ project.GEMINI_PROJECT_ID # None =>
              /\ project.projectId = None
              /\ project.assigned = <<>>
              /\ \A c \in 1..MaxCalls :
                    \/ project.call[c].pc = "idle"
                    \/ project.call[c] = [pc |-> "returned",
                                          value |-> project.GEMINI_PROJECT_ID[1],
                                          loadResponse |-> None]

C37_Step ==
    Discovering =>
        \A c \in 1..MaxCalls :
            /\ Throws(c) =>
                  /\ project'.projectId = project.projectId
                  /\ project'.assigned = project.assigned
                  /\ project'.call[c].value = DiscoveryError
            /\ (Starts(c) /\ project.GEMINI_PROJECT_ID = None /\ project.projectId = None)
                  => project'.call[c].pc = "await"

\* C37: when project discovery fails (the endpoint call throws or returns no
\* project id), discoverProjectId throws and leaves the cached project id
\* unchanged (null), so a later call tries discovery again; when
\* GEMINI_PROJECT_ID is configured, discoverProjectId returns it without calling
\* the endpoint and without writing the cache.
C37_FailedDiscoveryLeavesCache == [](C37_State) /\ [][C37_Step]_vars

\* A call has thrown, the cache is null, and a later call is discovering again
C37_Witness ==
    /\ Discovering
    /\ project.GEMINI_PROJECT_ID = None
    /\ project.projectId = None
    /\ project.call[1].pc = "thrown"
    /\ project.call[2].pc = "thrown"
    /\ project.call[3].pc = "await"

\* With GEMINI_PROJECT_ID configured every call made has returned it
C37_WitnessConfigured ==
    /\ Discovering
    /\ project.GEMINI_PROJECT_ID # None
    /\ \A c \in 1..MaxCalls : project.call[c].pc = "returned"


----------------------------------------------------------------------------
(* C38: the route's effort switch against the validator's effort handling *)

\* The request has passed the effort switch of the route
EffortApplied == mode = "route" /\ route.pc # "parse"

\* let includeReasoning = isRealThinkingEnabled (route line 44)
RouteIncludeReasoning0 == route.ENABLE_REAL_THINKING

\* let thinkingBudget = body.thinking_budget ?? DEFAULT_THINKING_BUDGET (route line 45)
RouteThinkingBudget0 ==
    IF route.body.thinking_budget = None
    THEN DEFAULT_THINKING_BUDGET ELSE route.body.thinking_budget[1]

\* What the validator's effort handling makes of the values the route started from
ValidatorEffort ==
    MapReasoningEffort(route.body.reasoning_effort, route.model,
                       RouteIncludeReasoning0, RouteThinkingBudget0)

\* The route and the validator computed the same budget and includeReasoning
RouteAgreesWithValidator ==
    /\ route.thinkingBudget = ValidatorEffort.thinkingBudget
    /\ route.includeReasoning = ValidatorEffort.includeReasoning

\* C38: for every valid effort level and every model id the budget and the
\* includeReasoning value computed by the route's inline effort switch equal
\* those computed by the validator's effort handling; for an effort value
\* outside {none, low, medium, high} both leave budget and includeReasoning
\* unchanged.
C38_RouteEffortEqualsValidator ==
    (EffortApplied /\ route.body.reasoning_effort # Nil) =>
        IF route.body.reasoning_effort \in EffortLevels
        THEN RouteAgreesWithValidator
        ELSE /\ route.thinkingBudget = RouteThinkingBudget0
             /\ route.includeReasoning = RouteIncludeReasoning0
             /\ ValidatorEffort.thinkingBudget = RouteThinkingBudget0
             /\ ValidatorEffort.includeReasoning = RouteIncludeReasoning0

\* The two computations agree for the four effort levels, and for any other
\* effort value both leave the budget unchanged
C38_ValidEffortsAgree ==
    (EffortApplied /\ route.body.reasoning_effort # Nil) =>
        IF route.body.reasoning_effort \in EffortLevels
        THEN RouteAgreesWithValidator
        ELSE /\ route.thinkingBudget = RouteThinkingBudget0
             /\ ValidatorEffort.thinkingBudget = RouteThinkingBudget0
             /\ ValidatorEffort.includeReasoning = RouteIncludeReasoning0

\* An effort value outside the four levels has switched includeReasoning on
C38_UnknownEffortSetsReasoning ==
    /\ EffortApplied
    /\ route.body.reasoning_effort = "maximum"
    /\ ~RouteIncludeReasoning0
    /\ route.includeReasoning
    /\ ~ValidatorEffort.includeReasoning


----------------------------------------------------------------------------
(* C39: one branch per backend part *)

\* The tool_code chunks among the chunks the step yields
EmittedCalls == SelectSeq(Emitted, LAMBDA c : c.type = "tool_code")

\* The step yields exactly one tool_code chunk, carrying the name and args of the
\* part's functionCall, and no chunk of another branch
YieldsTheCall ==
    /\ EmittedCalls = <<Chunk("tool_code", [name |-> HandledPart.functionCall[1].name,
                                            args |-> HandledPart.functionCall[1].args])>>
    /\ \A i \in 1..Len(Emitted) :
          Emitted[i].type = "tool_code" \/ Emitted[i] = CloseChunk

\* A part without a functionCall yields no tool_code chunk, and none at all when
\* its text is empty
YieldsNoCall ==
    /\ EmittedCalls = <<>>
    /\ HandledPart.text = <<>> => Emitted = <<>>

C39_Step ==
    HandlesPart =>
        IF HandledPart.functionCall # None THEN YieldsTheCall ELSE YieldsNoCall

C39_StepWithoutText ==
    HandlesPart =>
        IF HandledPart.functionCall # None /\ HandledPart.text = <<>>
        THEN YieldsTheCall ELSE YieldsNoCall

\* The same for parts whose functionCall comes without text; a part that carries
\* text as well is classified by a text branch and yields no tool_code chunk
C39_CallWithoutTextYieldsToolCode == [][C39_StepWithoutText]_vars

============================================================================
